---- MODULE Spec2Model ----
(***************************************************************************)
(* Optics (optics-rs): capability traits, mapped and composed optics and   *)
(* their wrappers, modelled as values; try_get / set / try_reverse_get are *)
(* operators that follow the code call by call and record every call made. *)
(***************************************************************************)
EXTENDS Integers, Sequences, FiniteSets, TLC

\* ------------------------------------------------------------------ bounds
\* Largest value of the carrier the closures work on (values are 0..MaxVal).
MaxVal == 3
\* Largest error code a closure or an error mapper produces (codes are 1..MaxErr).
MaxErr == 3
\* Frames the call stack holds before the process dies of stack exhaustion.
StackLimit == 12

Val == 0..MaxVal
Modulus == MaxVal + 1
ErrVal == 1..MaxErr

\* ----------------------------------------------------------------- results
\* Result<A, E>: Ok(a) or Err(e). A call that never returns has no Result; the
\* model gives it the outcome Diverge.
Ok(a) == [tag |-> "Ok", v |-> a]
Err(e) == [tag |-> "Err", v |-> e]
Diverge == [tag |-> "Diverge", v |-> 0]
\* A call that panics returns nothing either (its return type is `!`).
Panic == [tag |-> "Panic", v |-> 0]

IsOk(r) == r.tag = "Ok"
IsErr(r) == r.tag = "Err"

\* One entry of the call record: the method `op` entered on the optic at `at`
\* (the path from the optic the caller holds: 0 is a wrapper's field .0,
\* 1 and 2 are a composition's optic1 and optic2).
Ev(at, op) == [at |-> at, op |-> op]

\* What a read or a reverse call hands back: its Result and the calls it made.
Ret(r, log) == [r |-> r, log |-> log]
\* What a set call leaves: the source after it and the calls it made.
Upd(s, log) == [s |-> s, log |-> log]

\* ----------------------------------------------------------- error mappers
\* core::convert::identity as an error mapper.
identity == [e \in ErrVal |-> e]
\* fn(Infallible) -> E: there is no value to apply it to.
infallible == [e \in {} |-> e]
\* A caller-supplied fn(E1) -> E that is not the identity (k in 1..MaxErr-1).
ErrorMapper(k) == [e \in ErrVal |-> ((e + k - 1) % MaxErr) + 1]

\* ------------------------------------------------------------------ structs
MappedGetter(get_fn) == [kind |-> "MappedGetter", get_fn |-> get_fn]
MappedPartialGetter(get_fn) == [kind |-> "MappedPartialGetter", get_fn |-> get_fn]
MappedSetter(set_fn) == [kind |-> "MappedSetter", set_fn |-> set_fn]
MappedLens(get_fn, set_fn) == [kind |-> "MappedLens", get_fn |-> get_fn, set_fn |-> set_fn]
MappedPrism(get_fn, set_fn) == [kind |-> "MappedPrism", get_fn |-> get_fn, set_fn |-> set_fn]
MappedIso(get_fn, rev_fn) == [kind |-> "MappedIso", get_fn |-> get_fn, rev_fn |-> rev_fn]
MappedFallibleIso(get_fn, rev_fn) ==
  [kind |-> "MappedFallibleIso", get_fn |-> get_fn, rev_fn |-> rev_fn]

ComposedGetter(optic1, optic2) ==
  [kind |-> "ComposedGetter", optic1 |-> optic1, optic2 |-> optic2]
ComposedPartialGetter(optic1, optic2, error_fn_1, error_fn_2) ==
  [kind |-> "ComposedPartialGetter", optic1 |-> optic1, optic2 |-> optic2,
   error_fn_1 |-> error_fn_1, error_fn_2 |-> error_fn_2]
ComposedSetter(optic1, optic2) ==
  [kind |-> "ComposedSetter", optic1 |-> optic1, optic2 |-> optic2]
ComposedLens(optic1, optic2) ==
  [kind |-> "ComposedLens", optic1 |-> optic1, optic2 |-> optic2]
ComposedPrism(optic1, optic2, error_fn_1, error_fn_2) ==
  [kind |-> "ComposedPrism", optic1 |-> optic1, optic2 |-> optic2,
   error_fn_1 |-> error_fn_1, error_fn_2 |-> error_fn_2]
ComposedIso(optic1, optic2) ==
  [kind |-> "ComposedIso", optic1 |-> optic1, optic2 |-> optic2]
ComposedFallibleIso(optic1, optic2, g1, g2, r1, r2) ==
  [kind |-> "ComposedFallibleIso", optic1 |-> optic1, optic2 |-> optic2,
   getter_error_fn_1 |-> g1, getter_error_fn_2 |-> g2,
   reverse_error_fn_1 |-> r1, reverse_error_fn_2 |-> r2]

\* The wrappers: a tuple struct holding one implementation in field .0
GetterImpl(o) == [kind |-> "GetterImpl", inner |-> o]
PartialGetterImpl(o) == [kind |-> "PartialGetterImpl", inner |-> o]
SetterImpl(o) == [kind |-> "SetterImpl", inner |-> o]
LensImpl(o) == [kind |-> "LensImpl", inner |-> o]
PrismImpl(o) == [kind |-> "PrismImpl", inner |-> o]
IsoImpl(o) == [kind |-> "IsoImpl", inner |-> o]
FallibleIsoImpl(o) == [kind |-> "FallibleIsoImpl", inner |-> o]

\* -------------------------------------------------------------- operations
\* Trait dispatch: the method of the receiver's own type.
RECURSIVE try_get(_, _, _)
RECURSIVE set(_, _, _, _)
RECURSIVE try_reverse_get(_, _, _, _)

\* HasTotalGetter::get: match self.try_get(source) { Ok(value) => value }
get(o, p, source) ==
  LET r == try_get(o, p, source) IN Ret(r.r, <<Ev(p, "get")>> \o r.log)

\* HasTotalReverseGet::reverse_get: match self.try_reverse_get(value) { Ok(s) => s }
\* d is the number of frames below this one; a call past StackLimit does not return.
reverse_get(o, p, value, d) ==
  IF d >= StackLimit
  THEN Ret(Diverge, <<Ev(p, "reverse_get")>>)
  ELSE LET r == try_reverse_get(o, p, value, d + 1) IN
       Ret(r.r, <<Ev(p, "reverse_get")>> \o r.log)

\* Result::map_err: the mapper is called on an Err only.
map_err(r, error_fn) == IF IsErr(r) THEN Err(error_fn[r.v]) ELSE r

\* ---- mapped optics: the closures are called as they are
MappedGetter_try_get(o, p, source) ==
  Ret(Ok(o.get_fn[source]), <<Ev(p, "get_fn")>>)

MappedPartialGetter_try_get(o, p, source) ==
  Ret(o.get_fn[source], <<Ev(p, "get_fn")>>)

MappedSetter_set(o, p, source, value) ==
  Upd(o.set_fn[<<source, value>>], <<Ev(p, "set_fn")>>)

MappedLens_try_get(o, p, source) ==
  Ret(Ok(o.get_fn[source]), <<Ev(p, "get_fn")>>)

MappedLens_set(o, p, source, value) ==
  Upd(o.set_fn[<<source, value>>], <<Ev(p, "set_fn")>>)

MappedPrism_try_get(o, p, source) ==
  Ret(o.get_fn[source], <<Ev(p, "get_fn")>>)

MappedPrism_set(o, p, source, value) ==
  Upd(o.set_fn[<<source, value>>], <<Ev(p, "set_fn")>>)

MappedIso_try_get(o, p, source) ==
  Ret(Ok(o.get_fn[source]), <<Ev(p, "get_fn")>>)

MappedIso_try_reverse_get(o, p, value, d) ==
  Ret(Ok(o.rev_fn[value]), <<Ev(p, "rev_fn")>>)

\* *source = self.reverse_get(&value)
MappedIso_set(o, p, source, value) ==
  LET r == reverse_get(o, p, value, 1) IN
  Upd(IF IsOk(r.r) THEN r.r.v ELSE source, r.log)

MappedFallibleIso_try_get(o, p, source) ==
  Ret(o.get_fn[source], <<Ev(p, "get_fn")>>)

MappedFallibleIso_try_reverse_get(o, p, value, d) ==
  Ret(o.rev_fn[value], <<Ev(p, "rev_fn")>>)

\* self.try_reverse_get(&value).into_iter().for_each(|s| *source = s)
MappedFallibleIso_set(o, p, source, value) ==
  LET r == try_reverse_get(o, p, value, 1) IN
  Upd(IF IsOk(r.r) THEN r.r.v ELSE source, r.log)

\* ---- composed optics
\* Ok(self.optic2.get(&self.optic1.get(source)))
ComposedGetter_try_get(o, p, source) ==
  LET r1 == get(o.optic1, p \o <<1>>, source)
      r2 == get(o.optic2, p \o <<2>>, r1.r.v)
  IN Ret(r2.r, r1.log \o r2.log)

\* let i = self.optic1.try_get(source).map_err(self.error_fn_1)?;
\* self.optic2.try_get(&i).map_err(self.error_fn_2)
ComposedPartialGetter_try_get(o, p, source) ==
  LET r1 == try_get(o.optic1, p \o <<1>>, source) IN
  IF IsErr(r1.r)
  THEN Ret(map_err(r1.r, o.error_fn_1), r1.log \o <<Ev(p, "error_fn_1")>>)
  ELSE LET r2 == try_get(o.optic2, p \o <<2>>, r1.r.v) IN
       Ret(map_err(r2.r, o.error_fn_2),
           r1.log \o r2.log \o (IF IsErr(r2.r) THEN <<Ev(p, "error_fn_2")>> ELSE <<>>))

\* A set that writes the value, not the updated intermediate, back into the source.
ComposedSetter_set_writing_value(o, p, source, value) ==
  LET r1 == try_get(o.optic1, p \o <<1>>, source) IN
  IF IsOk(r1.r)
  THEN LET u2 == set(o.optic2, p \o <<2>>, r1.r.v, value)
           u1 == set(o.optic1, p \o <<1>>, source, value)
       IN Upd(u1.s, r1.log \o u2.log \o u1.log)
  ELSE Upd(source, r1.log)
\* if let Ok(mut i) = self.optic1.try_get(source) {
\*     self.optic2.set(&mut i, value); self.optic1.set(source, i); }
ComposedSetter_set(o, p, source, value) ==
  LET r1 == try_get(o.optic1, p \o <<1>>, source) IN
  IF IsOk(r1.r)
  THEN LET u2 == set(o.optic2, p \o <<2>>, r1.r.v, value)
           u1 == set(o.optic1, p \o <<1>>, source, u2.s)
       IN Upd(u1.s, r1.log \o u2.log \o u1.log)
  ELSE Upd(source, r1.log)

\* A read that reports an intermediate of 0 (a default, an empty field) as missing.
ComposedLens_try_get_rejecting_default(o, p, source) ==
  LET r1 == try_get(o.optic1, p \o <<1>>, source) IN
  IF IsErr(r1.r) \/ r1.r.v = 0
  THEN Ret(Err(1), r1.log)
  ELSE LET r2 == try_get(o.optic2, p \o <<2>>, r1.r.v) IN
       Ret(r2.r, r1.log \o r2.log)

\* let i = self.optic1.try_get(source)?; self.optic2.try_get(&i)
ComposedLens_try_get(o, p, source) ==
  LET r1 == try_get(o.optic1, p \o <<1>>, source) IN
  IF IsErr(r1.r)
  THEN r1
  ELSE LET r2 == try_get(o.optic2, p \o <<2>>, r1.r.v) IN
       Ret(r2.r, r1.log \o r2.log)

\* A set that updates the intermediate and never writes it back.
ComposedLens_set_no_write_back(o, p, source, value) ==
  LET r1 == get(o.optic1, p \o <<1>>, source)
      u2 == set(o.optic2, p \o <<2>>, r1.r.v, value)
  IN Upd(source, r1.log \o u2.log)

\* A set that writes the value back in place of the updated intermediate.
ComposedLens_set_writing_value(o, p, source, value) ==
  LET r1 == get(o.optic1, p \o <<1>>, source)
      u2 == set(o.optic2, p \o <<2>>, r1.r.v, value)
      u1 == set(o.optic1, p \o <<1>>, source, value)
  IN Upd(u1.s, r1.log \o u2.log \o u1.log)
\* let mut i = self.optic1.get(source);
\* self.optic2.set(&mut i, value); self.optic1.set(source, i);
ComposedLens_set(o, p, source, value) ==
  LET r1 == get(o.optic1, p \o <<1>>, source)
      u2 == set(o.optic2, p \o <<2>>, r1.r.v, value)
      u1 == set(o.optic1, p \o <<1>>, source, u2.s)
  IN Upd(u1.s, r1.log \o u2.log \o u1.log)

\* A try_get that hands the second stage's error back without mapping it.
ComposedPrism_try_get_unmapped_second(o, p, source) ==
  LET r1 == try_get(o.optic1, p \o <<1>>, source) IN
  IF IsErr(r1.r)
  THEN Ret(map_err(r1.r, o.error_fn_1), r1.log \o <<Ev(p, "error_fn_1")>>)
  ELSE LET r2 == try_get(o.optic2, p \o <<2>>, r1.r.v) IN
       Ret(r2.r, r1.log \o r2.log)
\* let i = self.optic1.try_get(source).map_err(self.error_fn_1)?;
\* self.optic2.try_get(&i).map_err(self.error_fn_2)
ComposedPrism_try_get(o, p, source) ==
  LET r1 == try_get(o.optic1, p \o <<1>>, source) IN
  IF IsErr(r1.r)
  THEN Ret(map_err(r1.r, o.error_fn_1), r1.log \o <<Ev(p, "error_fn_1")>>)
  ELSE LET r2 == try_get(o.optic2, p \o <<2>>, r1.r.v) IN
       Ret(map_err(r2.r, o.error_fn_2),
           r1.log \o r2.log \o (IF IsErr(r2.r) THEN <<Ev(p, "error_fn_2")>> ELSE <<>>))

\* A set that writes back the intermediate it read, not the one the second stage
\* updated (the update is made on a copy).
ComposedPrism_set_writing_stale(o, p, source, value) ==
  LET r1 == try_get(o.optic1, p \o <<1>>, source) IN
  IF IsOk(r1.r)
  THEN LET u2 == set(o.optic2, p \o <<2>>, r1.r.v, value)
           u1 == set(o.optic1, p \o <<1>>, source, r1.r.v)
       IN Upd(u1.s, r1.log \o u2.log \o u1.log)
  ELSE Upd(source, r1.log \o <<Ev(p, "error_fn_1")>>)
\* A set that stores the value as the intermediate, skipping the second stage.
ComposedPrism_set_skipping_stage_2(o, p, source, value) ==
  LET r1 == try_get(o.optic1, p \o <<1>>, source) IN
  IF IsOk(r1.r)
  THEN LET u1 == set(o.optic1, p \o <<1>>, source, value)
       IN Upd(u1.s, r1.log \o u1.log)
  ELSE Upd(source, r1.log \o <<Ev(p, "error_fn_1")>>)

\* A set that writes through both stages whatever the first stage's read said.
ComposedPrism_set_unconditional(o, p, source, value) ==
  LET r1 == try_get(o.optic1, p \o <<1>>, source)
      i == IF IsOk(r1.r) THEN r1.r.v ELSE source
      u2 == set(o.optic2, p \o <<2>>, i, value)
      u1 == set(o.optic1, p \o <<1>>, source, u2.s)
  IN Upd(u1.s, r1.log \o u2.log \o u1.log)

\* if let Ok(mut i) = self.optic1.try_get(source).map_err(self.error_fn_1) {
\*     self.optic2.set(&mut i, value); self.optic1.set(source, i); }
ComposedPrism_set(o, p, source, value) ==
  LET r1 == try_get(o.optic1, p \o <<1>>, source) IN
  IF IsOk(r1.r)
  THEN LET u2 == set(o.optic2, p \o <<2>>, r1.r.v, value)
           u1 == set(o.optic1, p \o <<1>>, source, u2.s)
       IN Upd(u1.s, r1.log \o u2.log \o u1.log)
  ELSE Upd(source, r1.log \o <<Ev(p, "error_fn_1")>>)

\* A read that hands the second stage the source instead of the intermediate
\* (both are the same type when S = I).
ComposedIso_try_get_of_source(o, p, source) ==
  LET r1 == try_get(o.optic1, p \o <<1>>, source) IN
  IF IsErr(r1.r)
  THEN r1
  ELSE LET r2 == try_get(o.optic2, p \o <<2>>, source) IN
       Ret(r2.r, r1.log \o r2.log)

\* let i = self.optic1.try_get(source)?; self.optic2.try_get(&i)
ComposedIso_try_get(o, p, source) ==
  LET r1 == try_get(o.optic1, p \o <<1>>, source) IN
  IF IsErr(r1.r)
  THEN r1
  ELSE LET r2 == try_get(o.optic2, p \o <<2>>, r1.r.v) IN
       Ret(r2.r, r1.log \o r2.log)

\* A set that reads the first stage again before writing the intermediate back.
ComposedIso_set_reading_again(o, p, source, value) ==
  LET r1 == get(o.optic1, p \o <<1>>, source)
      u2 == set(o.optic2, p \o <<2>>, r1.r.v, value)
      r3 == get(o.optic1, p \o <<1>>, source)
      u1 == set(o.optic1, p \o <<1>>, source, u2.s)
  IN Upd(u1.s, r1.log \o u2.log \o r3.log \o u1.log)
\* let mut i = self.optic1.get(source);
\* self.optic2.set(&mut i, value); self.optic1.set(source, i);
ComposedIso_set(o, p, source, value) ==
  LET r1 == get(o.optic1, p \o <<1>>, source)
      u2 == set(o.optic2, p \o <<2>>, r1.r.v, value)
      u1 == set(o.optic1, p \o <<1>>, source, u2.s)
  IN Upd(u1.s, r1.log \o u2.log \o u1.log)

\* Ok(self.reverse_get(value)): reverse_get is HasTotalReverseGet's, implemented
\* for every HasReverseGet with ReverseError = Infallible, this struct included.
ComposedIso_try_reverse_get(o, p, value, d) ==
  reverse_get(o, p, value, d + 1)

\* A try_get that hands the first stage's error back without mapping it.
ComposedFallibleIso_try_get_unmapped(o, p, source) ==
  LET r1 == try_get(o.optic1, p \o <<1>>, source) IN
  IF IsErr(r1.r)
  THEN Ret(r1.r, r1.log)
  ELSE LET r2 == try_get(o.optic2, p \o <<2>>, r1.r.v) IN
       Ret(map_err(r2.r, o.getter_error_fn_2),
           r1.log \o r2.log
             \o (IF IsErr(r2.r) THEN <<Ev(p, "getter_error_fn_2")>> ELSE <<>>))

\* let i = self.optic1.try_get(source).map_err(self.getter_error_fn_1)?;
\* self.optic2.try_get(&i).map_err(self.getter_error_fn_2)
ComposedFallibleIso_try_get(o, p, source) ==
  LET r1 == try_get(o.optic1, p \o <<1>>, source) IN
  IF IsErr(r1.r)
  THEN Ret(map_err(r1.r, o.getter_error_fn_1), r1.log \o <<Ev(p, "getter_error_fn_1")>>)
  ELSE LET r2 == try_get(o.optic2, p \o <<2>>, r1.r.v) IN
       Ret(map_err(r2.r, o.getter_error_fn_2),
           r1.log \o r2.log
             \o (IF IsErr(r2.r) THEN <<Ev(p, "getter_error_fn_2")>> ELSE <<>>))

\* A reverse that stops after the second stage and hands back the intermediate.
ComposedFallibleIso_try_reverse_get_second_stage_only(o, p, value, d) ==
  LET r2 == try_reverse_get(o.optic2, p \o <<2>>, value, d + 1) IN
  IF r2.r.tag = "Diverge"
  THEN r2
  ELSE Ret(map_err(r2.r, o.reverse_error_fn_2),
           r2.log \o (IF IsErr(r2.r) THEN <<Ev(p, "reverse_error_fn_2")>> ELSE <<>>))

\* let i = self.optic2.try_reverse_get(value).map_err(self.reverse_error_fn_2)?;
\* self.optic1.try_reverse_get(&i).map_err(self.reverse_error_fn_1)
ComposedFallibleIso_try_reverse_get(o, p, value, d) ==
  LET r2 == try_reverse_get(o.optic2, p \o <<2>>, value, d + 1) IN
  IF r2.r.tag = "Diverge"
  THEN r2
  ELSE IF IsErr(r2.r)
  THEN Ret(map_err(r2.r, o.reverse_error_fn_2), r2.log \o <<Ev(p, "reverse_error_fn_2")>>)
  ELSE LET r1 == try_reverse_get(o.optic1, p \o <<1>>, r2.r.v, d + 1) IN
       IF r1.r.tag = "Diverge"
       THEN Ret(Diverge, r2.log \o r1.log)
       ELSE Ret(map_err(r1.r, o.reverse_error_fn_1),
                r2.log \o r1.log
                  \o (IF IsErr(r1.r) THEN <<Ev(p, "reverse_error_fn_1")>> ELSE <<>>))

\* A set written as the mapped FallibleIso's: the reverse of the whole composition.
ComposedFallibleIso_set_through_reverse(o, p, source, value) ==
  LET r == try_reverse_get(o, p, value, 1) IN
  Upd(IF IsOk(r.r) THEN r.r.v ELSE source, r.log)

ComposedFallibleIso_set(o, p, source, value) ==
  LET r1 == try_get(o.optic1, p \o <<1>>, source) IN
  IF IsOk(r1.r)
  THEN LET u2 == set(o.optic2, p \o <<2>>, r1.r.v, value)
           u1 == set(o.optic1, p \o <<1>>, source, u2.s)
       IN Upd(u1.s, r1.log \o u2.log \o u1.log)
  ELSE Upd(source, r1.log \o <<Ev(p, "getter_error_fn_1")>>)

\* ---- wrappers
\* Ok(self.0.get(source))
GetterImpl_try_get(o, p, source) == get(o.inner, p \o <<0>>, source)

PartialGetterImpl_try_get(o, p, source) == try_get(o.inner, p \o <<0>>, source)

SetterImpl_set(o, p, source, value) == set(o.inner, p \o <<0>>, source, value)

\* Ok(self.0.get(source))
LensImpl_try_get(o, p, source) == get(o.inner, p \o <<0>>, source)

LensImpl_set(o, p, source, value) == set(o.inner, p \o <<0>>, source, value)

PrismImpl_try_get(o, p, source) == try_get(o.inner, p \o <<0>>, source)

\* A wrapper that writes only when the wrapped prism can read the source.
PrismImpl_set_when_readable(o, p, source, value) ==
  IF IsOk(try_get(o.inner, p \o <<0>>, source).r)
  THEN set(o.inner, p \o <<0>>, source, value)
  ELSE Upd(source, <<>>)

PrismImpl_set(o, p, source, value) == set(o.inner, p \o <<0>>, source, value)

\* Ok(self.0.get(source))
IsoImpl_try_get(o, p, source) == get(o.inner, p \o <<0>>, source)

IsoImpl_set(o, p, source, value) == set(o.inner, p \o <<0>>, source, value)

\* Ok(self.0.reverse_get(value))
IsoImpl_try_reverse_get(o, p, value, d) == reverse_get(o.inner, p \o <<0>>, value, d + 1)

FallibleIsoImpl_try_get(o, p, source) == try_get(o.inner, p \o <<0>>, source)

FallibleIsoImpl_set(o, p, source, value) == set(o.inner, p \o <<0>>, source, value)

FallibleIsoImpl_try_reverse_get(o, p, value, d) ==
  try_reverse_get(o.inner, p \o <<0>>, value, d + 1)

\* ---- dispatch on the receiver's type
TryGetOf(o, p, source) ==
  CASE o.kind = "MappedGetter" -> MappedGetter_try_get(o, p, source)
    [] o.kind = "MappedPartialGetter" -> MappedPartialGetter_try_get(o, p, source)
    [] o.kind = "MappedLens" -> MappedLens_try_get(o, p, source)
    [] o.kind = "MappedPrism" -> MappedPrism_try_get(o, p, source)
    [] o.kind = "MappedIso" -> MappedIso_try_get(o, p, source)
    [] o.kind = "MappedFallibleIso" -> MappedFallibleIso_try_get(o, p, source)
    [] o.kind = "ComposedGetter" -> ComposedGetter_try_get(o, p, source)
    [] o.kind = "ComposedPartialGetter" -> ComposedPartialGetter_try_get(o, p, source)
    [] o.kind = "ComposedLens" -> ComposedLens_try_get(o, p, source)
    [] o.kind = "ComposedPrism" -> ComposedPrism_try_get(o, p, source)
    [] o.kind = "ComposedIso" -> ComposedIso_try_get(o, p, source)
    [] o.kind = "ComposedFallibleIso" -> ComposedFallibleIso_try_get(o, p, source)
    [] o.kind = "GetterImpl" -> GetterImpl_try_get(o, p, source)
    [] o.kind = "PartialGetterImpl" -> PartialGetterImpl_try_get(o, p, source)
    [] o.kind = "LensImpl" -> LensImpl_try_get(o, p, source)
    [] o.kind = "PrismImpl" -> PrismImpl_try_get(o, p, source)
    [] o.kind = "IsoImpl" -> IsoImpl_try_get(o, p, source)
    [] o.kind = "FallibleIsoImpl" -> FallibleIsoImpl_try_get(o, p, source)

try_get(o, p, source) ==
  LET r == TryGetOf(o, p, source) IN Ret(r.r, <<Ev(p, "try_get")>> \o r.log)

SetOf(o, p, source, value) ==
  CASE o.kind = "MappedSetter" -> MappedSetter_set(o, p, source, value)
    [] o.kind = "MappedLens" -> MappedLens_set(o, p, source, value)
    [] o.kind = "MappedPrism" -> MappedPrism_set(o, p, source, value)
    [] o.kind = "MappedIso" -> MappedIso_set(o, p, source, value)
    [] o.kind = "MappedFallibleIso" -> MappedFallibleIso_set(o, p, source, value)
    [] o.kind = "ComposedSetter" -> ComposedSetter_set(o, p, source, value)
    [] o.kind = "ComposedLens" -> ComposedLens_set(o, p, source, value)
    [] o.kind = "ComposedPrism" -> ComposedPrism_set(o, p, source, value)
    [] o.kind = "ComposedIso" -> ComposedIso_set(o, p, source, value)
    [] o.kind = "ComposedFallibleIso" -> ComposedFallibleIso_set(o, p, source, value)
    [] o.kind = "SetterImpl" -> SetterImpl_set(o, p, source, value)
    [] o.kind = "LensImpl" -> LensImpl_set(o, p, source, value)
    [] o.kind = "PrismImpl" -> PrismImpl_set(o, p, source, value)
    [] o.kind = "IsoImpl" -> IsoImpl_set(o, p, source, value)
    [] o.kind = "FallibleIsoImpl" -> FallibleIsoImpl_set(o, p, source, value)

set(o, p, source, value) ==
  LET u == SetOf(o, p, source, value) IN Upd(u.s, <<Ev(p, "set")>> \o u.log)

TryReverseGetOf(o, p, value, d) ==
  CASE o.kind = "MappedIso" -> MappedIso_try_reverse_get(o, p, value, d)
    [] o.kind = "MappedFallibleIso" -> MappedFallibleIso_try_reverse_get(o, p, value, d)
    [] o.kind = "ComposedIso" -> ComposedIso_try_reverse_get(o, p, value, d)
    [] o.kind = "ComposedFallibleIso" -> ComposedFallibleIso_try_reverse_get(o, p, value, d)
    [] o.kind = "IsoImpl" -> IsoImpl_try_reverse_get(o, p, value, d)
    [] o.kind = "FallibleIsoImpl" -> FallibleIsoImpl_try_reverse_get(o, p, value, d)

try_reverse_get(o, p, value, d) ==
  IF d >= StackLimit
  THEN Ret(Diverge, <<Ev(p, "try_reverse_get")>>)
  ELSE LET r == TryReverseGetOf(o, p, value, d) IN
       Ret(r.r, <<Ev(p, "try_reverse_get")>> \o r.log)

\* ------------------------------------------------------------ constructors
mapped_getter(get_fn) == GetterImpl(MappedGetter(get_fn))
mapped_partial_getter(get_fn) == PartialGetterImpl(MappedPartialGetter(get_fn))
mapped_setter(set_fn) == SetterImpl(MappedSetter(set_fn))
mapped_lens(get_fn, set_fn) == LensImpl(MappedLens(get_fn, set_fn))
mapped_prism(get_fn, set_fn) == PrismImpl(MappedPrism(get_fn, set_fn))
mapped_iso(get_fn, rev_fn) == IsoImpl(MappedIso(get_fn, rev_fn))
mapped_fallible_iso(get_fn, rev_fn) == FallibleIsoImpl(MappedFallibleIso(get_fn, rev_fn))

composed_getter(l1, l2) == GetterImpl(ComposedGetter(l1, l2))
composed_partial_getter(pg1, pg2, error_fn_1, error_fn_2) ==
  PartialGetterImpl(ComposedPartialGetter(pg1, pg2, error_fn_1, error_fn_2))
composed_setter(p1, s2) == SetterImpl(ComposedSetter(p1, s2))
composed_lens(l1, l2) == LensImpl(ComposedLens(l1, l2))
composed_prism(p1, p2, error_fn_1, error_fn_2) ==
  PrismImpl(ComposedPrism(p1, p2, error_fn_1, error_fn_2))
composed_iso(i1, i2) == IsoImpl(ComposedIso(i1, i2))
composed_fallible_iso(f1, f2, g1, g2, r1, r2) ==
  FallibleIsoImpl(ComposedFallibleIso(f1, f2, g1, g2, r1, r2))

\* The capabilities each type implements.
HasGetter(o) == o.kind \notin {"MappedSetter", "ComposedSetter", "SetterImpl"}
HasSetter(o) ==
  o.kind \notin {"MappedGetter", "ComposedGetter", "GetterImpl",
                 "MappedPartialGetter", "ComposedPartialGetter", "PartialGetterImpl"}
HasReverseGet(o) ==
  o.kind \in {"MappedIso", "ComposedIso", "IsoImpl",
              "MappedFallibleIso", "ComposedFallibleIso", "FallibleIsoImpl"}
\* GetterError = Infallible: HasTotalGetter is implemented.
HasTotalGetter(o) ==
  o.kind \in {"MappedGetter", "ComposedGetter", "GetterImpl", "MappedLens", "ComposedLens",
              "LensImpl", "MappedIso", "ComposedIso", "IsoImpl"}
\* ReverseError = Infallible: HasTotalReverseGet is implemented.
HasTotalReverseGet(o) == o.kind \in {"MappedIso", "ComposedIso", "IsoImpl"}

\* ---- the wrappers' composition methods. em holds the caller's error
\* conversions: em.g1, em.g2 for the two getter errors, em.r1, em.r2 for the two
\* reverse errors (the _with_mappers arguments, or the From impls behind Into::into).
LensImpl_compose_with_partial_getter(self, other) ==
  composed_partial_getter(self.inner, other.inner, infallible, identity)
LensImpl_compose_with_setter(self, other) == composed_setter(self.inner, other.inner)
LensImpl_compose_with_lens(self, other) == composed_lens(self.inner, other.inner)
LensImpl_compose_with_prism(self, other) ==
  composed_prism(self.inner, other.inner, infallible, identity)
LensImpl_compose_with_fallible_iso(self, other) ==
  composed_prism(self, other, infallible, identity)
LensImpl_compose_with_iso(self, other) == composed_lens(self.inner, other.inner)

PrismImpl_compose_with_partial_getter_with_mappers(self, other, em) ==
  composed_partial_getter(self.inner, other.inner, em.g1, em.g2)
\* A compose_with_setter that panics, as PartialGetterImpl's does.
PrismImpl_compose_with_setter_panicking(self, other) == Panic
PrismImpl_compose_with_setter(self, other) == composed_setter(self.inner, other.inner)
PrismImpl_compose_with_prism_with_mappers(self, other, em) ==
  composed_prism(self.inner, other.inner, em.g1, em.g2)
PrismImpl_compose_with_lens(self, other) ==
  composed_prism(self.inner, other.inner, identity, infallible)
PrismImpl_compose_with_fallible_iso_with_mappers(self, other, em) ==
  composed_prism(self.inner, other.inner, em.g1, em.g2)
PrismImpl_compose_with_iso(self, other) ==
  composed_prism(self.inner, other.inner, identity, infallible)

IsoImpl_compose_with_partial_getter(self, other) ==
  composed_partial_getter(self.inner, other.inner, infallible, identity)
IsoImpl_compose_with_setter(self, other) == composed_setter(self.inner, other.inner)
\* An Iso composed with a Lens through the Prism composition.
IsoImpl_compose_with_lens_as_prism(self, other) ==
  composed_prism(self, other, infallible, identity)
IsoImpl_compose_with_lens(self, other) == composed_lens(self, other)
IsoImpl_compose_with_prism(self, other) == composed_prism(self, other, infallible, identity)
IsoImpl_compose_with_fallible_iso(self, other) ==
  composed_fallible_iso(self, other, infallible, identity, infallible, identity)
IsoImpl_compose_with_iso(self, other) == composed_iso(self.inner, other.inner)

FallibleIsoImpl_compose_with_partial_getter_with_mappers(self, other, em) ==
  composed_partial_getter(self.inner, other.inner, em.g1, em.g2)
FallibleIsoImpl_compose_with_setter(self, other) == composed_setter(self.inner, other.inner)
FallibleIsoImpl_compose_with_prism_with_mappers(self, other, em) ==
  composed_prism(self, other, em.g1, em.g2)
FallibleIsoImpl_compose_with_lens(self, other) ==
  composed_prism(self, other, identity, infallible)
FallibleIsoImpl_compose_with_fallible_iso_with_mappers(self, other, em) ==
  composed_fallible_iso(self, other, em.g1, em.g2, em.r1, em.r2)
\* A composition with an Iso that passes the fallible stage's errors through a
\* conversion that renumbers them.
FallibleIsoImpl_compose_with_iso_converting(self, other) ==
  composed_fallible_iso(self.inner, other.inner,
                        ErrorMapper(1), infallible, ErrorMapper(1), infallible)
FallibleIsoImpl_compose_with_iso(self, other) ==
  composed_fallible_iso(self.inner, other.inner, identity, infallible, identity, infallible)

PartialGetterImpl_compose_with_partial_getter_with_mappers(self, other, em) ==
  composed_partial_getter(self.inner, other.inner, em.g1, em.g2)

PartialGetterImpl_compose_with_getter(self, other) ==
  composed_partial_getter(self.inner, other.inner, identity, infallible)
\* -> !: the body is panic!()
PartialGetterImpl_compose_with_setter(self, other) == Panic
PartialGetterImpl_compose_with_prism_with_mappers(self, other, em) ==
  composed_partial_getter(self.inner, other.inner, em.g1, em.g2)
PartialGetterImpl_compose_with_lens(self, other) ==
  composed_partial_getter(self.inner, other.inner, identity, infallible)
PartialGetterImpl_compose_with_fallible_iso_with_mappers(self, other, em) ==
  composed_partial_getter(self.inner, other.inner, em.g1, em.g2)
PartialGetterImpl_compose_with_iso(self, other) ==
  composed_partial_getter(self.inner, other.inner, identity, infallible)

GetterImpl_compose_with_getter(self, other) == composed_getter(self.inner, other.inner)
GetterImpl_compose_with_partial_getter(self, other) ==
  composed_partial_getter(self.inner, other.inner, infallible, identity)
GetterImpl_compose_with_setter(self, other) == composed_setter(self.inner, other.inner)
GetterImpl_compose_with_prism(self, other) ==
  composed_partial_getter(self, other, infallible, identity)
GetterImpl_compose_with_lens(self, other) == composed_getter(self, other.inner)
GetterImpl_compose_with_fallible_iso(self, other) ==
  composed_partial_getter(self, other.inner, infallible, identity)
GetterImpl_compose_with_iso(self, other) == composed_getter(self, other.inner)

LensImpl_compose_with_getter(self, other) == composed_getter(self.inner, other.inner)
PrismImpl_compose_with_getter(self, other) ==
  composed_partial_getter(self.inner, other.inner, identity, infallible)
IsoImpl_compose_with_getter(self, other) == composed_getter(self.inner, other.inner)
FallibleIsoImpl_compose_with_getter(self, other) ==
  composed_partial_getter(self.inner, other.inner, identity, infallible)

\* The compose_with_<kind of other> method of self's wrapper.
compose(self, other, em) ==
  LET k == <<self.kind, other.kind>> IN
  CASE k = <<"LensImpl", "PartialGetterImpl">> -> LensImpl_compose_with_partial_getter(self, other)
    [] k = <<"LensImpl", "SetterImpl">> -> LensImpl_compose_with_setter(self, other)
    [] k = <<"LensImpl", "LensImpl">> -> LensImpl_compose_with_lens(self, other)
    [] k = <<"LensImpl", "PrismImpl">> -> LensImpl_compose_with_prism(self, other)
    [] k = <<"LensImpl", "FallibleIsoImpl">> -> LensImpl_compose_with_fallible_iso(self, other)
    [] k = <<"LensImpl", "IsoImpl">> -> LensImpl_compose_with_iso(self, other)
    [] k = <<"PrismImpl", "PartialGetterImpl">> ->
         PrismImpl_compose_with_partial_getter_with_mappers(self, other, em)
    [] k = <<"PrismImpl", "SetterImpl">> -> PrismImpl_compose_with_setter(self, other)
    [] k = <<"PrismImpl", "PrismImpl">> -> PrismImpl_compose_with_prism_with_mappers(self, other, em)
    [] k = <<"PrismImpl", "LensImpl">> -> PrismImpl_compose_with_lens(self, other)
    [] k = <<"PrismImpl", "FallibleIsoImpl">> ->
         PrismImpl_compose_with_fallible_iso_with_mappers(self, other, em)
    [] k = <<"PrismImpl", "IsoImpl">> -> PrismImpl_compose_with_iso(self, other)
    [] k = <<"IsoImpl", "PartialGetterImpl">> -> IsoImpl_compose_with_partial_getter(self, other)
    [] k = <<"IsoImpl", "SetterImpl">> -> IsoImpl_compose_with_setter(self, other)
    [] k = <<"IsoImpl", "LensImpl">> -> IsoImpl_compose_with_lens(self, other)
    [] k = <<"IsoImpl", "PrismImpl">> -> IsoImpl_compose_with_prism(self, other)
    [] k = <<"IsoImpl", "FallibleIsoImpl">> -> IsoImpl_compose_with_fallible_iso(self, other)
    [] k = <<"IsoImpl", "IsoImpl">> -> IsoImpl_compose_with_iso(self, other)
    [] k = <<"FallibleIsoImpl", "PartialGetterImpl">> ->
         FallibleIsoImpl_compose_with_partial_getter_with_mappers(self, other, em)
    [] k = <<"FallibleIsoImpl", "SetterImpl">> -> FallibleIsoImpl_compose_with_setter(self, other)
    [] k = <<"FallibleIsoImpl", "PrismImpl">> ->
         FallibleIsoImpl_compose_with_prism_with_mappers(self, other, em)
    [] k = <<"FallibleIsoImpl", "LensImpl">> -> FallibleIsoImpl_compose_with_lens(self, other)
    [] k = <<"FallibleIsoImpl", "FallibleIsoImpl">> ->
         FallibleIsoImpl_compose_with_fallible_iso_with_mappers(self, other, em)
    [] k = <<"FallibleIsoImpl", "IsoImpl">> -> FallibleIsoImpl_compose_with_iso(self, other)
    [] k = <<"PartialGetterImpl", "PartialGetterImpl">> ->
         PartialGetterImpl_compose_with_partial_getter_with_mappers(self, other, em)
    [] k = <<"GetterImpl", "GetterImpl">> -> GetterImpl_compose_with_getter(self, other)
    [] k = <<"GetterImpl", "PartialGetterImpl">> ->
         GetterImpl_compose_with_partial_getter(self, other)
    [] k = <<"GetterImpl", "SetterImpl">> -> GetterImpl_compose_with_setter(self, other)
    [] k = <<"GetterImpl", "PrismImpl">> -> GetterImpl_compose_with_prism(self, other)
    [] k = <<"GetterImpl", "LensImpl">> -> GetterImpl_compose_with_lens(self, other)
    [] k = <<"GetterImpl", "FallibleIsoImpl">> ->
         GetterImpl_compose_with_fallible_iso(self, other)
    [] k = <<"GetterImpl", "IsoImpl">> -> GetterImpl_compose_with_iso(self, other)
    [] k = <<"PartialGetterImpl", "GetterImpl">> ->
         PartialGetterImpl_compose_with_getter(self, other)
    [] k = <<"PartialGetterImpl", "SetterImpl">> ->
         PartialGetterImpl_compose_with_setter(self, other)
    [] k = <<"PartialGetterImpl", "PrismImpl">> ->
         PartialGetterImpl_compose_with_prism_with_mappers(self, other, em)
    [] k = <<"PartialGetterImpl", "LensImpl">> -> PartialGetterImpl_compose_with_lens(self, other)
    [] k = <<"PartialGetterImpl", "FallibleIsoImpl">> ->
         PartialGetterImpl_compose_with_fallible_iso_with_mappers(self, other, em)
    [] k = <<"PartialGetterImpl", "IsoImpl">> -> PartialGetterImpl_compose_with_iso(self, other)
    [] k = <<"LensImpl", "GetterImpl">> -> LensImpl_compose_with_getter(self, other)
    [] k = <<"PrismImpl", "GetterImpl">> -> PrismImpl_compose_with_getter(self, other)
    [] k = <<"IsoImpl", "GetterImpl">> -> IsoImpl_compose_with_getter(self, other)
    [] k = <<"FallibleIsoImpl", "GetterImpl">> -> FallibleIsoImpl_compose_with_getter(self, other)

\* ---- what the compiler accepts
\* The modules of crate::optics: each has a wrapper, and each wrapper but
\* SetterImpl has one compose_with_<module> method per module.
OpticNames == {"getter", "partial_getter", "setter", "prism", "lens", "fallible_iso", "iso"}

\* The type of the parameter `other` of compose_with_<name>.
ImplOf(name) ==
  CASE name = "getter" -> "GetterImpl"
    [] name = "partial_getter" -> "PartialGetterImpl"
    [] name = "setter" -> "SetterImpl"
    [] name = "prism" -> "PrismImpl"
    [] name = "lens" -> "LensImpl"
    [] name = "fallible_iso" -> "FallibleIsoImpl"
    [] name = "iso" -> "IsoImpl"

\* The wrappers with an impl block of composition methods.
HasComposeMethods(self) ==
  self.kind \in {"GetterImpl", "PartialGetterImpl", "PrismImpl", "LensImpl",
                 "FallibleIsoImpl", "IsoImpl"}

\* The where clause of compose_with_<name> on the type in self.0:
\* GetterImpl::compose_with_setter has G1: Setter<S, I>,
\* PartialGetterImpl::compose_with_setter has PG1: Prism<S, I>.
WhereClause(self, name) ==
  CASE self.kind = "GetterImpl" /\ name = "setter" -> HasSetter(self.inner)
    [] self.kind = "PartialGetterImpl" /\ name = "setter" ->
         HasGetter(self.inner) /\ HasSetter(self.inner)
    [] OTHER -> TRUE

\* self.compose_with_<name>(other) type-checks.
TypeChecks(self, name, other) ==
  /\ HasComposeMethods(self)
  /\ other.kind = ImplOf(name)
  /\ WhereClause(self, name)

\* A call the compiler rejects: there is no program to run.
Rejected == [tag |-> "Rejected", v |-> 0]

\* A SetterImpl given a compose_with_setter like that of the other wrappers.
compose_with_setter_on_setter(self, name, other, em) ==
  IF self.kind = "SetterImpl" /\ name = "setter" /\ other.kind = "SetterImpl"
  THEN composed_setter(self.inner, other.inner)
  ELSE IF TypeChecks(self, name, other) THEN compose(self, other, em) ELSE Rejected

\* self.compose_with_<name>(other): rejected by the compiler, or what the method
\* returns (Panic when it does not return).
compose_with(self, name, other, em) ==
  IF TypeChecks(self, name, other) THEN compose(self, other, em) ELSE Rejected

\* The pairs of wrappers a caller can compose: the call compiles and returns.
Composable(self, other) ==
  \E name \in OpticNames :
    /\ TypeChecks(self, name, other)
    /\ ~(self.kind = "PartialGetterImpl" /\ name = "setter")

\* ------------------------------------------------- the closures of the callers
\* The carrier 0..MaxVal stands for u32 and 0..NarrowMax for u16.
NarrowMax == MaxVal \div 2

\* |c: &u32| c.wrapping_add(k), |v| v.wrapping_sub(k)
wrapping_add(k) ==
  mapped_iso([c \in Val |-> (c + k) % Modulus], [v \in Val |-> (v + Modulus - k) % Modulus])
wrapping_add_one == wrapping_add(1)
wrapping_add_two == wrapping_add(2)

\* u16::try_from(*c).map_err(|_| "Too big"), |v| Ok(u32::from(*v))
to_u16 ==
  mapped_fallible_iso([c \in Val |-> IF c > NarrowMax THEN Err(1) ELSE Ok(c)],
                      [v \in Val |-> Ok(v)])

\* c.overflowing_mul(2) or "Overflow"; v / 2 when v is even or "Not Even"
times_2 ==
  mapped_fallible_iso([c \in Val |-> IF 2 * c > MaxVal THEN Err(2) ELSE Ok(2 * c)],
                      [v \in Val |-> IF v % 2 = 0 THEN Ok(v \div 2) ELSE Err(3)])

\* A conversion between units whose reverse picks the normal form of the source:
\* reading loses the remainder, the reverse never gives it back.
delay_iso ==
  mapped_fallible_iso([c \in Val |-> Ok(c \div 2)],
                      [v \in Val |-> IF 2 * v > MaxVal THEN Err(2) ELSE Ok(2 * v)])

\* A lens onto a whole field: |c| c.main.clone(), |c, v| c.main = v
main_lens == mapped_lens([c \in Val |-> c], [cv \in Val \X Val |-> cv[2]])

\* A lens onto the upper part of the source; the lowest bit is the rest of the struct.
port_lens ==
  mapped_lens([c \in Val |-> c \div 2],
              [cv \in Val \X Val |-> (2 * cv[2] + (cv[1] % 2)) % Modulus])

\* |c| c.port.ok_or(()), |c, v| c.port = Some(v): source 0 is None, c + 1 is Some(c).
port_prism ==
  mapped_prism([c \in Val |-> IF c = 0 THEN Err(1) ELSE Ok(c - 1)],
               [cv \in Val \X Val |-> IF cv[2] + 1 > MaxVal THEN MaxVal ELSE cv[2] + 1])

\* An enum-variant prism: even sources are the variant holding c / 2; the setter
\* replaces the whole source by the variant.
variant_prism ==
  mapped_prism([c \in Val |-> IF c % 2 = 0 THEN Ok(c \div 2) ELSE Err(2)],
               [cv \in Val \X Val |-> (2 * cv[2]) % Modulus])

\* The Seconds variant of Timespan: odd sources are Seconds(c / 2), even ones
\* another variant; the setter writes only when the source is already Seconds.
timespan_seconds_prism ==
  mapped_prism([c \in Val |-> IF c % 2 = 1 THEN Ok(c \div 2) ELSE Err(1)],
               [cv \in Val \X Val |->
                  IF cv[1] % 2 = 1 THEN (2 * cv[2] + 1) % Modulus ELSE cv[1]])
replace_setter == mapped_setter([cv \in Val \X Val |-> cv[2]])
add_setter == mapped_setter([cv \in Val \X Val |-> (cv[1] + cv[2]) % Modulus])

port_partial_getter ==
  mapped_partial_getter([c \in Val |-> IF c = 0 THEN Err(1) ELSE Ok(c - 1)])
variant_partial_getter ==
  mapped_partial_getter([c \in Val |-> IF c % 2 = 0 THEN Ok(c \div 2) ELSE Err(2)])

half_getter == mapped_getter([c \in Val |-> c \div 2])

\* ---- the identity constructors: |x: &S| x.clone() and |s, v| *s = v
identity_getter == mapped_getter([x \in Val |-> x])
identity_partial_getter == mapped_partial_getter([x \in Val |-> Ok(x)])
identity_setter == mapped_setter([sv \in Val \X Val |-> sv[2]])
\* An identity prism whose setter forgets the assignment.
identity_prism_without_assignment ==
  mapped_prism([s \in Val |-> Ok(s)], [sv \in Val \X Val |-> sv[1]])
identity_prism == mapped_prism([s \in Val |-> Ok(s)], [sv \in Val \X Val |-> sv[2]])
identity_lens == mapped_lens([x \in Val |-> x], [sv \in Val \X Val |-> sv[2]])
identity_iso == mapped_iso([x \in Val |-> x], [x \in Val |-> x])
identity_fallible_iso == mapped_fallible_iso([x \in Val |-> Ok(x)], [x \in Val |-> Ok(x)])

Identities ==
  {identity_getter, identity_partial_getter, identity_setter, identity_prism,
   identity_lens, identity_iso, identity_fallible_iso}

\* The optics with both a getter and a setter, and all the leaves.
Movers ==
  {wrapping_add_one, wrapping_add_two, to_u16, times_2, delay_iso,
   main_lens, port_lens, port_prism, variant_prism, timespan_seconds_prism}
Leaves ==
  Movers \cup {replace_setter, add_setter, port_partial_getter, variant_partial_getter,
               half_getter}

\* The error conversions a caller passes to the composition methods.
IntoMappers == [g1 |-> identity, g2 |-> identity, r1 |-> identity, r2 |-> identity]
ExplicitMappers ==
  [g1 |-> ErrorMapper(1), g2 |-> ErrorMapper(2), r1 |-> ErrorMapper(2), r2 |-> ErrorMapper(1)]
Mappers == {IntoMappers, ExplicitMappers}

\* The optic a caller builds from its stages: o1, o1.compose(o2),
\* o1.compose(o2).compose(o3) ("left") or o1.compose(o2.compose(o3)) ("right").
Build(st, sh, em) ==
  IF Len(st) = 1 THEN st[1]
  ELSE IF Len(st) = 2 THEN compose(st[1], st[2], em)
  ELSE IF sh = "left" THEN compose(compose(st[1], st[2], em), st[3], em)
  ELSE compose(st[1], compose(st[2], st[3], em), em)

Programs ==
  {<<o>> : o \in Leaves}
    \cup {st \in Leaves \X Leaves : Composable(st[1], st[2])}
    \cup (Movers \X Movers \X Movers)

\* ---- the HasOver extension
\* The closures a caller passes to over: |a| a + 1 (wrapping), a closure that
\* keeps the value, and one that resets it.
OverFns ==
  <<[a \in Val |-> (a + 1) % Modulus], [a \in Val |-> a], [a \in Val |-> 0]>>

\* An over that applies the closure to its own result.
over_applying_twice(o, p, source, f) ==
  LET r == try_get(o, p, source) IN
  IF IsOk(r.r)
  THEN LET u == set(o, p, source, f[f[r.r.v]]) IN
       Upd(u.s, <<Ev(p, "over")>> \o r.log \o <<Ev(p, "f"), Ev(p, "f")>> \o u.log)
  ELSE Upd(source, <<Ev(p, "over")>> \o r.log)

\* The calls made before a set, followed by what the set leaves and calls.
After(log, u) == Upd(u.s, log \o u.log)

\* if let Ok(value) = ... { self.set(source, f(value)); }, r being what
\* self.try_get(source) returned
over_if_let(r, o, p, source, f) ==
  IF IsOk(r.r)
  THEN After(<<Ev(p, "over")>> \o r.log \o <<Ev(p, "f")>>, set(o, p, source, f[r.r.v]))
  ELSE Upd(source, <<Ev(p, "over")>> \o r.log)

\* if let Ok(value) = self.try_get(source) { self.set(source, f(value)); }
over(o, p, source, f) == over_if_let(try_get(o, p, source), o, p, source, f)

\* ------------------------------------------------------------ the program
VARIABLES
  stages,   \* the optics the caller composed, outermost first
  shape,    \* how three stages were grouped
  mappers,  \* the error conversions given to the composition methods
  optic,    \* the optic the caller holds
  source,   \* the caller's source value
  before,   \* the source when the last operation was entered
  op,       \* the last operation called on optic
  arg,      \* the value passed to it
  result,   \* what it returned
  calls     \* every call it made, in order

vars == <<stages, shape, mappers, optic, source, before, op, arg, result, calls>>

NoResult == [tag |-> "None", v |-> 0]
Unit == [tag |-> "Unit", v |-> 0]

Init ==
  /\ stages \in Programs
  /\ shape \in {"left", "right"}
  /\ Len(stages) < 3 => shape = "left"
  /\ mappers \in Mappers
  /\ optic = Build(stages, shape, mappers)
  /\ source \in Val
  /\ before = source
  /\ op = "new"
  /\ arg = 0
  /\ result = NoResult
  /\ calls = <<>>

\* A call that did not return leaves no caller to make another one, and a
\* program the compiler rejected never ran.
Running == result.tag \notin {"Diverge", "Panic", "Rejected"}

\* A read that takes the value out of the source (mem::take) instead of cloning it.
TryGet_taking ==
  /\ Running
  /\ HasGetter(optic)
  /\ LET r == try_get(optic, <<>>, source) IN
       /\ result' = r.r
       /\ calls' = r.log
  /\ source' = 0
  /\ before' = source
  /\ op' = "try_get"
  /\ arg' = 0
  /\ UNCHANGED <<stages, shape, mappers, optic>>

TryGet ==
  /\ Running
  /\ HasGetter(optic)
  /\ LET r == try_get(optic, <<>>, source) IN
       /\ result' = r.r
       /\ calls' = r.log
  /\ before' = source
  /\ op' = "try_get"
  /\ arg' = 0
  /\ UNCHANGED <<stages, shape, mappers, optic, source>>

Get ==
  /\ Running
  /\ HasTotalGetter(optic)
  /\ LET r == get(optic, <<>>, source) IN
       /\ result' = r.r
       /\ calls' = r.log
  /\ before' = source
  /\ op' = "get"
  /\ arg' = 0
  /\ UNCHANGED <<stages, shape, mappers, optic, source>>

Set(value) ==
  /\ Running
  /\ HasSetter(optic)
  /\ LET u == set(optic, <<>>, source, value) IN
       /\ source' = u.s
       /\ calls' = u.log
  /\ before' = source
  /\ op' = "set"
  /\ arg' = value
  /\ result' = Unit
  /\ UNCHANGED <<stages, shape, mappers, optic>>

TryReverseGet(value) ==
  /\ Running
  /\ HasReverseGet(optic)
  /\ LET r == try_reverse_get(optic, <<>>, value, 0) IN
       /\ result' = r.r
       /\ calls' = r.log
  /\ before' = source
  /\ op' = "try_reverse_get"
  /\ arg' = value
  /\ UNCHANGED <<stages, shape, mappers, optic, source>>

ReverseGet(value) ==
  /\ Running
  /\ HasTotalReverseGet(optic)
  /\ LET r == reverse_get(optic, <<>>, value, 0) IN
       /\ result' = r.r
       /\ calls' = r.log
  /\ before' = source
  /\ op' = "reverse_get"
  /\ arg' = value
  /\ UNCHANGED <<stages, shape, mappers, optic, source>>

Next ==
  \/ TryGet
  \/ Get
  \/ \E value \in Val : Set(value)
  \/ \E value \in Val : TryReverseGet(value)
  \/ \E value \in Val : ReverseGet(value)

Spec == Init /\ [][Next]_vars

\* ------------------------------------------------ a caller using HasOver
\* The source and the call record a call leaves.
Left(u) == source' = u.s /\ calls' = u.log

\* optic.over(&mut source, OverFns[k]); arg records which closure was passed.
Over(k) ==
  /\ Running
  /\ HasGetter(optic) /\ HasSetter(optic)
  /\ Left(over(optic, <<>>, source, OverFns[k]))
  /\ before' = source
  /\ op' = "over"
  /\ arg' = k
  /\ result' = Unit
  /\ UNCHANGED <<stages, shape, mappers, optic>>

OverNext ==
  \/ Next
  \/ \E k \in DOMAIN OverFns : Over(k)

\* The callers with one optic or a composition of two.
OverInit == Init /\ Len(stages) <= 2

OverSpec == OverInit /\ [][OverNext]_vars
\* ------------------------------------------- a caller composing two optics
\* XImpl::from(value): an implementation taken out of one wrapper (field .0 is
\* public) and put into another wrapper whose trait it also has.
Rewrapped ==
  {GetterImpl(main_lens.inner), GetterImpl(wrapping_add_one.inner),
   PartialGetterImpl(port_prism.inner), PartialGetterImpl(to_u16.inner),
   SetterImpl(port_prism.inner)}

Operands == Leaves \cup Rewrapped

MethodName(name) ==
  CASE name = "getter" -> "compose_with_getter"
    [] name = "partial_getter" -> "compose_with_partial_getter"
    [] name = "setter" -> "compose_with_setter"
    [] name = "prism" -> "compose_with_prism"
    [] name = "lens" -> "compose_with_lens"
    [] name = "fallible_iso" -> "compose_with_fallible_iso"
    [] name = "iso" -> "compose_with_iso"

ComposeMethods == {MethodName(name) : name \in OpticNames}

\* The method returned the composed optic.
Composed == [tag |-> "Composed", v |-> 0]

ComposeInit ==
  /\ stages \in Operands \X Operands
  /\ shape = "left"
  /\ mappers \in Mappers
  /\ optic = stages[1]
  /\ source \in Val
  /\ before = source
  /\ op = "new"
  /\ arg = 0
  /\ result = NoResult
  /\ calls = <<>>

\* let optic = stages[1].compose_with_<name>(stages[2]);
ComposeWith(name) ==
  /\ op = "new"
  /\ LET r == compose_with(stages[1], name, stages[2], mappers) IN
       IF r = Rejected \/ r = Panic
       THEN result' = r /\ optic' = optic
       ELSE result' = Composed /\ optic' = r
  /\ op' = MethodName(name)
  /\ before' = source
  /\ arg' = 0
  /\ calls' = <<>>
  /\ UNCHANGED <<stages, shape, mappers, source>>

ComposeNext ==
  \/ \E name \in OpticNames : ComposeWith(name)
  \/ op # "new" /\ TryGet
  \/ op # "new" /\ Get
  \/ op # "new" /\ \E value \in Val : Set(value)
  \/ op # "new" /\ \E value \in Val : TryReverseGet(value)
  \/ op # "new" /\ \E value \in Val : ReverseGet(value)

ComposeSpec == ComposeInit /\ [][ComposeNext]_vars

\* ------------------------------------------- a caller holding an identity optic
IdentityInit ==
  /\ stages \in {<<o>> : o \in Identities}
  /\ shape = "left"
  /\ mappers = IntoMappers
  /\ optic = Build(stages, shape, mappers)
  /\ source \in Val
  /\ before = source
  /\ op = "new"
  /\ arg = 0
  /\ result = NoResult
  /\ calls = <<>>

IdentitySpec == IdentityInit /\ [][Next]_vars

\* ---------------------------------------- a caller composing two wrapping adds
\* Largest value of the carrier that stands for u32 here (u32::MAX); it is wide
\* enough to hold the test's 5 and 8.
WideMax == 15
Wide == 0..WideMax
WideModulus == WideMax + 1

\* mapped_iso(|c: &u32| c.wrapping_add(k), |v| v.wrapping_sub(k))
wrapping_add_wide(k) ==
  mapped_iso([c \in Wide |-> (c + k) % WideModulus],
             [v \in Wide |-> (v + WideModulus - k) % WideModulus])

WrapInit ==
  /\ stages = <<wrapping_add_wide(1), wrapping_add_wide(2)>>
  /\ shape = "left"
  /\ mappers = IntoMappers
  /\ optic = Build(stages, shape, mappers)
  /\ source \in Wide
  /\ before = source
  /\ op = "new"
  /\ arg = 0
  /\ result = NoResult
  /\ calls = <<>>

WrapNext ==
  \/ TryGet
  \/ Get
  \/ \E value \in Wide : Set(value)
  \/ \E value \in Wide : TryReverseGet(value)
  \/ \E value \in Wide : ReverseGet(value)

WrapSpec == WrapInit /\ [][WrapNext]_vars

\* ------------------------------- a caller holding an optic of the test module
\* The carrier 0..WideMax stands for u32 and 0..WideMax / 2 for u16.
NarrowWide == 0..(WideMax \div 2)

\* u16::try_from(*c).map_err(|_| "Too big"), |v| Ok(u32::from(*v))
to_u16_wide ==
  mapped_fallible_iso([c \in Wide |-> IF c \in NarrowWide THEN Ok(c) ELSE Err(1)],
                      [v \in NarrowWide |-> Ok(v)])

\* c.overflowing_mul(2u16) or "Overflow"; v / 2 when v is even or "Not Even"
times_2_wide ==
  mapped_fallible_iso([c \in NarrowWide |-> IF 2 * c \in NarrowWide THEN Ok(2 * c) ELSE Err(2)],
                      [v \in NarrowWide |-> IF v % 2 = 0 THEN Ok(v \div 2) ELSE Err(3)])

WidePrograms == {<<wrapping_add_wide(1)>>, <<to_u16_wide, times_2_wide>>}

WideInit ==
  /\ stages \in WidePrograms
  /\ shape = "left"
  /\ mappers \in Mappers
  /\ optic = Build(stages, shape, mappers)
  /\ source \in Wide
  /\ before = source
  /\ op = "new"
  /\ arg = 0
  /\ result = NoResult
  /\ calls = <<>>

\* The values of the focus type of the optic the caller holds.
FocusType ==
  IF stages \notin WidePrograms THEN Val
  ELSE IF Len(stages) = 2 THEN NarrowWide
  ELSE Wide

TestInit == Init \/ WideInit

TestNext ==
  \/ TryGet
  \/ Get
  \/ \E value \in FocusType : Set(value)
  \/ \E value \in FocusType : TryReverseGet(value)
  \/ \E value \in FocusType : ReverseGet(value)

TestSpec == TestInit /\ [][TestNext]_vars
\* ------------------------------------------------- optics that obey their laws
\* Largest focus value of the optics enumerated for the law checks.
MaxFocus == 1
Focus == 0..MaxFocus
Inner == 0..(MaxFocus + 1)
Outer == 0..(MaxFocus + 2)

\* Every function f on DOMAIN allowed with f[x] \in allowed[x].
RECURSIVE Sections(_)
Sections(allowed) ==
  IF DOMAIN allowed = {}
  THEN {[x \in {} |-> x]}
  ELSE LET x == CHOOSE y \in DOMAIN allowed : TRUE
           rest == [y \in DOMAIN allowed \ {x} |-> allowed[y]]
       IN {[y \in DOMAIN allowed |-> IF y = x THEN v ELSE f[y]] :
             f \in Sections(rest), v \in allowed[x]}

\* The carriers of a mapped optic's closures.
SourcesOf(o) == DOMAIN o.inner.get_fn
FocusesOf(o) == {sa[2] : sa \in DOMAIN o.inner.set_fn}

\* Lens laws: get(set(s, a)) = a and set(s, get(s)) = s.
IsLawfulLens(o) ==
  /\ o.kind = "LensImpl"
  /\ \A s \in SourcesOf(o), a \in FocusesOf(o) :
       get(o, <<>>, set(o, <<>>, s, a).s).r = Ok(a)
  /\ \A s \in SourcesOf(o) : set(o, <<>>, s, get(o, <<>>, s).r.v).s = s

\* Every lens from S to A that obeys the Lens laws: the setter keeps a source that
\* already reads a, and otherwise moves to any source that reads a.
LawfulLenses(S, A) ==
  UNION {
    {mapped_lens(g, st) :
       st \in Sections([sa \in S \X A |->
                          IF g[sa[1]] = sa[2] THEN {sa[1]} ELSE {x \in S : g[x] = sa[2]}])} :
    g \in [S -> A]}

\* set-after-set: a set overwrites the set before it.
SetAfterSet(o) ==
  \A s \in SourcesOf(o), a \in FocusesOf(o), b \in FocusesOf(o) :
    set(o, <<>>, set(o, <<>>, s, a).s, b).s = set(o, <<>>, s, b).s

\* The lawful lenses from S to A whose setter overwrites what it wrote before.
VeryLawfulLenses(S, A) ==
  {o \in LawfulLenses(S, A) :
     \A s \in S, a \in A, b \in A :
       o.inner.set_fn[<<o.inner.set_fn[<<s, a>>], b>>] = o.inner.set_fn[<<s, b>>]}

\* A rearrangement of the source followed by a field of it, and a field
\* followed by a rearrangement of the field.
VeryLawfulLensPrograms ==
  (VeryLawfulLenses(Outer, Outer) \X VeryLawfulLenses(Outer, Focus))
    \cup (VeryLawfulLenses(Outer, Focus) \X VeryLawfulLenses(Focus, Focus))
LensPrograms == LawfulLenses(Outer, Inner) \X LawfulLenses(Inner, Focus)

\* Prism law: if try_get(s) = Ok(a) then after set(s, a), try_get(s) = Ok(a).
IsLawfulPrism(o) ==
  /\ o.kind = "PrismImpl"
  /\ \A s \in SourcesOf(o) :
       LET r == try_get(o, <<>>, s).r IN
       IsOk(r) => try_get(o, <<>>, set(o, <<>>, s, r.v).s).r = r

Results(A) == {Err(1)} \cup {Ok(a) : a \in A}

\* Every prism from S to A that obeys the Prism law: writing the value a source
\* reads leaves a source that reads it; every other write is free.
LawfulPrisms(S, A) ==
  UNION {
    {mapped_prism(g, st) :
       st \in Sections([sa \in S \X A |->
                          IF g[sa[1]] = Ok(sa[2]) THEN {x \in S : g[x] = Ok(sa[2])} ELSE S])} :
    g \in [S -> Results(A)]}

PrismPrograms == LawfulPrisms(Focus, Focus) \X LawfulPrisms(Focus, Focus)

\* FallibleIso law: when both directions succeed, the round trip gives the value
\* it started from. An Iso is the case where neither direction fails.
IsLawfulFallibleIso(o) ==
  /\ o.kind \in {"FallibleIsoImpl", "IsoImpl"}
  /\ \A a \in DOMAIN o.inner.rev_fn :
       LET s == try_reverse_get(o, <<>>, a, 0).r IN
       IsOk(s) => LET a2 == try_get(o, <<>>, s.v).r IN IsOk(a2) => a2.v = a
  /\ \A s \in DOMAIN o.inner.get_fn :
       LET a == try_get(o, <<>>, s).r IN
       IsOk(a) => LET s2 == try_reverse_get(o, <<>>, a.v, 0).r IN IsOk(s2) => s2.v = s

LawfulFallibleIsos(S, A) ==
  {o \in {mapped_fallible_iso(g, rv) : g \in [S -> Results(A)], rv \in [A -> Results(S)]} :
     IsLawfulFallibleIso(o)}

LawfulIsos(S, A) ==
  {o \in {mapped_iso(g, rv) : g \in [S -> A], rv \in [A -> S]} : IsLawfulFallibleIso(o)}

\* The pairs of enumerated stages whose composition is a FallibleIso, and the
\* u32 -> u16 conversion composed with doubling.
FallibleIsoPrograms ==
  LET fallible == LawfulFallibleIsos(Focus, Focus)
      total == LawfulIsos(Focus, Focus)
  IN (fallible \X (fallible \cup total)) \cup (total \X fallible) \cup {<<to_u16, times_2>>}

\* A caller holding the composition of two stages drawn from programs.
LawInit(programs) ==
  /\ stages \in programs
  /\ shape = "left"
  /\ mappers \in Mappers
  /\ optic = Build(stages, shape, mappers)
  /\ source \in SourcesOf(stages[1])
  /\ before = source
  /\ op = "new"
  /\ arg = 0
  /\ result = NoResult
  /\ calls = <<>>

LensInit == LawInit(LensPrograms) /\ mappers = IntoMappers
LensNext ==
  \/ TryGet
  \/ Get
  \/ \E value \in FocusesOf(stages[2]) : Set(value)
LensSpec == LensInit /\ [][LensNext]_vars

PrismInit == LawInit(PrismPrograms)
PrismNext ==
  \/ TryGet
  \/ \E value \in FocusesOf(stages[2]) : Set(value)
PrismSpec == PrismInit /\ [][PrismNext]_vars

FallibleIsoInit == LawInit(FallibleIsoPrograms)
FallibleIsoNext ==
  \/ TryGet
  \/ \E value \in DOMAIN stages[2].inner.rev_fn : Set(value)
  \/ \E value \in DOMAIN stages[2].inner.rev_fn : TryReverseGet(value)
FallibleIsoSpec == FallibleIsoInit /\ [][FallibleIsoNext]_vars\* ------------------------------------ a caller making one set after another
\* Longest sequence of sets.
MaxSets == 3

\* The sets the caller has made.
SetsMade == Len(SelectSeq(calls, LAMBDA c : c = Ev(<<>>, "set")))

\* optic.set(&mut source, value), once more on the same source: before stays the
\* source the sequence started from and calls grows.
SetAgain(value) ==
  /\ SetsMade < MaxSets
  /\ LET u == set(optic, <<>>, source, value) IN
       /\ source' = u.s
       /\ calls' = calls \o u.log
  /\ op' = "set"
  /\ arg' = value
  /\ result' = Unit
  /\ UNCHANGED <<stages, shape, mappers, optic, before>>

SetsNext == \E value \in FocusesOf(stages[2]) : SetAgain(value)

SetsInit == LawInit(LensPrograms \cup VeryLawfulLensPrograms) /\ mappers = IntoMappers

SetsSpec == SetsInit /\ [][SetsNext]_vars

\* ----------------------------- a caller composing an optic with an identity
\* identity_<kind>().compose_with_<kind>(o) and o.compose_with_<kind>(identity_<kind>())
NeutralPrograms ==
  {st \in (Identities \X Leaves) \cup (Leaves \X Identities) : Composable(st[1], st[2])}

NeutralInit ==
  /\ stages \in NeutralPrograms
  /\ shape = "left"
  /\ mappers = IntoMappers
  /\ optic = Build(stages, shape, mappers)
  /\ source \in Val
  /\ before = source
  /\ op = "new"
  /\ arg = 0
  /\ result = NoResult
  /\ calls = <<>>

NeutralSpec == NeutralInit /\ [][Next]_vars

\* ------------------------------------ threads sharing one composed optic
\* Each thread owns a source (&mut S is exclusive) and calls set and try_get on
\* the shared optic (&self). Here every variable but the optic's holds one entry
\* per thread, and calls holds each thread's frame: where the thread is in the
\* body of the composed method, and its local `i`.
NumThreads == 2
Threads == 1..NumThreads

ThreadPrograms ==
  {<<main_lens, port_lens>>, <<main_lens, port_prism>>, <<port_prism, variant_prism>>}

Idle == [pc |-> "idle", i |-> 0]

\* An intermediate kept in one place for all callers (a field of the optic).
SharedSlot(t) == 1

\* `let mut i` / `if let Ok(mut i)`: the intermediate is a local of the caller's
\* frame.
Slot(t) == t

ThreadInit ==
  /\ stages \in ThreadPrograms
  /\ shape = "left"
  /\ mappers \in Mappers
  /\ optic = Build(stages, shape, mappers)
  /\ source \in [Threads -> Val]
  /\ before = source
  /\ op = [t \in Threads |-> "new"]
  /\ arg = [t \in Threads |-> 0]
  /\ result = [t \in Threads |-> NoResult]
  /\ calls = [t \in Threads |-> Idle]

\* The mapper of the composition's stage n, where it has one.
StageError(r, n) ==
  IF optic.inner.kind = "ComposedPrism"
  THEN map_err(r, IF n = 1 THEN optic.inner.error_fn_1 ELSE optic.inner.error_fn_2)
  ELSE r

\* Thread t calls optic.set(&mut source[t], value) or optic.try_get(&source[t]).
Enter(t, method, value) ==
  /\ calls[t].pc = "idle"
  /\ op' = [op EXCEPT ![t] = method]
  /\ arg' = [arg EXCEPT ![t] = value]
  /\ before' = [before EXCEPT ![t] = source[t]]
  /\ result' = [result EXCEPT ![t] = NoResult]
  /\ calls' = [calls EXCEPT ![t].pc = "read"]
  /\ UNCHANGED <<stages, shape, mappers, optic, source>>

\* self.optic1.try_get(source): on Err, set returns and try_get returns the
\* mapped error; on Ok the intermediate goes into i.
ReadIntermediate(t) ==
  /\ calls[t].pc = "read"
  /\ LET r == try_get(optic.inner.optic1, <<0, 1>>, source[t]).r IN
       IF IsOk(r)
       THEN /\ calls' = [calls EXCEPT ![t].pc = IF op[t] = "set" THEN "update" ELSE "further",
                                      ![Slot(t)].i = r.v]
            /\ result' = result
       ELSE /\ calls' = [calls EXCEPT ![t] = Idle]
            /\ result' = [result EXCEPT ![t] = IF op[t] = "set" THEN Unit ELSE StageError(r, 1)]
  /\ UNCHANGED <<stages, shape, mappers, optic, source, before, op, arg>>

\* self.optic2.set(&mut i, value)
SetIntermediate(t) ==
  /\ calls[t].pc = "update"
  /\ calls' = [calls EXCEPT
                 ![t].pc = "write",
                 ![Slot(t)].i = set(optic.inner.optic2, <<0, 2>>, calls[Slot(t)].i, arg[t]).s]
  /\ UNCHANGED <<stages, shape, mappers, optic, source, before, op, arg, result>>

\* self.optic1.set(source, i), and set returns
WriteBack(t) ==
  /\ calls[t].pc = "write"
  /\ source' = [source EXCEPT
                  ![t] = set(optic.inner.optic1, <<0, 1>>, source[t], calls[Slot(t)].i).s]
  /\ result' = [result EXCEPT ![t] = Unit]
  /\ calls' = [calls EXCEPT ![t].pc = "idle", ![Slot(t)].i = 0]
  /\ UNCHANGED <<stages, shape, mappers, optic, before, op, arg>>

\* self.optic2.try_get(&i), and try_get returns
ReadFurther(t) ==
  /\ calls[t].pc = "further"
  /\ result' = [result EXCEPT
                  ![t] = StageError(try_get(optic.inner.optic2, <<0, 2>>, calls[Slot(t)].i).r, 2)]
  /\ calls' = [calls EXCEPT ![t].pc = "idle", ![Slot(t)].i = 0]
  /\ UNCHANGED <<stages, shape, mappers, optic, source, before, op, arg>>

ThreadNext ==
  \E t \in Threads :
    \/ \E value \in Val : Enter(t, "set", value)
    \/ Enter(t, "try_get", 0)
    \/ ReadIntermediate(t)
    \/ SetIntermediate(t)
    \/ WriteBack(t)
    \/ ReadFurther(t)

ThreadSpec == ThreadInit /\ [][ThreadNext]_vars
\* ------------------------------------------------------------------ claims
\* The call was made on the optic at path p or on one of its parts.
Under(at, p) == Len(at) >= Len(p) /\ SubSeq(at, 1, Len(p)) = p

\* The composition the caller holds, and where its two stages sit.
Composition == optic.inner
AtO1 == <<0, 1>>
AtO2 == <<0, 2>>
IsComposition == Len(stages) >= 2

\* What the first stage answers when asked to read the source the operation got.
O1Read == try_get(Composition.optic1, AtO1, before).r

Mapper1 ==
  IF Composition.kind = "ComposedFallibleIso"
  THEN Composition.getter_error_fn_1
  ELSE Composition.error_fn_1

\* C2: try_get on a composed PartialGetter, Prism or FallibleIso whose first
\* stage fails with e1 returns Err(m1(e1)) and never evaluates the second
\* stage's try_get.
C2_FirstStageErrorShortCircuits ==
  (/\ op = "try_get"
   /\ IsComposition
   /\ Composition.kind \in {"ComposedPartialGetter", "ComposedPrism", "ComposedFallibleIso"}
   /\ IsErr(O1Read))
  => /\ result = Err(Mapper1[O1Read.v])
     /\ \A i \in 1..Len(calls) : ~Under(calls[i].at, AtO2)

C2_Witness ==
  /\ op = "try_get"
  /\ IsComposition
  /\ Composition.kind = "ComposedFallibleIso"
  /\ IsErr(O1Read)
  /\ mappers = ExplicitMappers
  /\ result = Err(ErrorMapper(1)[O1Read.v])
  /\ result # O1Read

\* C3: every try_get, get, set, try_reverse_get and reverse_get on a mapped or
\* composed optic returns after finitely many steps.
C3_EveryOperationReturns ==
  op # "new" => result.tag # "Diverge"

\* What the second stage answers when asked to reverse the operation's argument,
\* and what the first stage answers for the value the second one produced.
O2Reverse == try_reverse_get(Composition.optic2, AtO2, arg, 0).r
O1Reverse == try_reverse_get(Composition.optic1, AtO1, O2Reverse.v, 0).r

\* C4: try_reverse_get on a reversible composition (Iso with Iso, and every
\* pairing giving a FallibleIso) reverses the second stage first; when that fails
\* it returns the second stage's mapped reverse error without evaluating the
\* first stage's reverse; otherwise it returns the first stage's reverse, mapped
\* by the first reverse mapper.
C4_ReverseRunsSecondStageFirst ==
  (/\ op = "try_reverse_get"
   /\ IsComposition
   /\ Composition.kind \in {"ComposedIso", "ComposedFallibleIso"})
  => IF IsErr(O2Reverse)
     THEN /\ result = Err(Composition.reverse_error_fn_2[O2Reverse.v])
          /\ \A i \in 1..Len(calls) : ~Under(calls[i].at, AtO1)
     ELSE /\ IsOk(O2Reverse)
          /\ result = IF Composition.kind = "ComposedIso"
                      THEN O1Reverse
                      ELSE map_err(O1Reverse, Composition.reverse_error_fn_1)
          /\ \E i, j \in 1..Len(calls) :
               /\ i < j
               /\ calls[i] = Ev(AtO2, "try_reverse_get")
               /\ calls[j] = Ev(AtO1, "try_reverse_get")

\* The total read of the optic the caller holds.
Read(s) == try_get(optic, <<>>, s).r

\* Both stages are Isos obeying the Iso laws, composed by compose_with_iso.
IsLawfulIso(o) ==
  /\ o.kind = "IsoImpl"
  /\ \A s \in Val : reverse_get(o, <<>>, get(o, <<>>, s).r.v, 0).r = Ok(s)
  /\ \A a \in Val : get(o, <<>>, reverse_get(o, <<>>, a, 0).r.v).r = Ok(a)
IsLawfulIsoPair ==
  Len(stages) = 2 /\ IsLawfulIso(stages[1]) /\ IsLawfulIso(stages[2])

\* C5: the Iso made by compose_with_iso from two Isos that obey the Iso laws
\* obeys them: reverse_get(get(s)) = s and get(reverse_get(a)) = a.
C5_ComposedIsoLaws ==
  (IsLawfulIsoPair /\ op = "reverse_get")
  => /\ result.tag = "Ok"
     /\ Read(result.v) = Ok(arg)
     /\ arg = Read(before).v => result = Ok(before)

\* A Prism stage constructs a when, from every source, set(s, a) leaves a source
\* that reads Ok(a).
Constructs(o, a) ==
  \A s \in Val : try_get(o, <<>>, set(o, <<>>, s, a).s).r = Ok(a)
\* Both stages are prisms, the second constructs the value written and the first
\* constructs every intermediate the second can leave.
IsConstructingPrismPair ==
  /\ Len(stages) = 2
  /\ stages[1].kind = "PrismImpl"
  /\ stages[2].kind = "PrismImpl"
  /\ Constructs(stages[2], arg)
  /\ \A i \in Val : Constructs(stages[1], set(stages[2], <<>>, i, arg).s)

\* C6: after set(s, a) on a Prism, composed ones included, try_get(s) is Ok(a),
\* also when try_get(s) was an Err before the call.
C6_SetAlwaysConstructs ==
  (op = "set" /\ IsConstructingPrismPair) => Read(source) = Ok(arg)

\* The same three stages grouped the other way.
Regrouped == Build(stages, IF shape = "left" THEN "right" ELSE "left", mappers)

\* C7: (O1 . O2) . O3 and O1 . (O2 . O3) give the same try_get and get results
\* and leave the same source after set, for every source and value, also when an
\* intermediate read fails.
C7_CompositionIsAssociative ==
  (Len(stages) = 3 /\ mappers = IntoMappers)
  => /\ op = "try_get" => result = try_get(Regrouped, <<>>, before).r
     /\ op = "get" => result = get(Regrouped, <<>>, before).r
     /\ op = "set" => source = set(Regrouped, <<>>, before, arg).s

IsLawfulLensPair ==
  Len(stages) = 2 /\ IsLawfulLens(stages[1]) /\ IsLawfulLens(stages[2])

\* C8: the Lens composed from two lenses that obey the Lens laws obeys them:
\* get(set(s, a)) = a and set(s, get(s)) = s.
C8_ComposedLensLaws ==
  (IsLawfulLensPair /\ op = "set")
  => /\ get(optic, <<>>, source).r = Ok(arg)
     /\ arg = get(optic, <<>>, before).r.v => source = before

\* lens(main) . lens(port): the focus read 0 (None), set wrote 1 and it reads 1.
C8_Witness ==
  /\ IsLawfulLensPair
  /\ op = "set"
  /\ get(optic, <<>>, before).r = Ok(0)
  /\ arg = 1
  /\ source # before
  /\ get(optic, <<>>, source).r = Ok(1)

IsLawfulPrismPair ==
  Len(stages) = 2 /\ IsLawfulPrism(stages[1]) /\ IsLawfulPrism(stages[2])

\* C9 as stated: the Prism composed from two prisms that obey the Prism law
\* obeys it: if try_get(s) = Ok(a) then after set(s, a), try_get(s) = Ok(a).
C9_ComposedPrismLaw ==
  (IsLawfulPrismPair /\ op = "set" /\ Read(before) = Ok(arg))
  => Read(source) = Ok(arg)

\* On a source the prism can read, every value written is the value read back.
ReadsBackEveryWrite(o) ==
  /\ o.kind = "PrismImpl"
  /\ \A s \in SourcesOf(o), x \in FocusesOf(o) :
       IsOk(try_get(o, <<>>, s).r) => try_get(o, <<>>, set(o, <<>>, s, x).s).r = Ok(x)

\* C9 amended: when the first prism reads back every value written to a source
\* it can read, and the second obeys the Prism law, the composed Prism obeys the
\* Prism law.
C9_ComposedPrismLawGivenFirstReadsBack ==
  (/\ Len(stages) = 2
   /\ ReadsBackEveryWrite(stages[1])
   /\ IsLawfulPrism(stages[2])
   /\ op = "set"
   /\ Read(before) = Ok(arg))
  => Read(source) = Ok(arg)

C9_Witness ==
  /\ Len(stages) = 2
  /\ ReadsBackEveryWrite(stages[1])
  /\ IsLawfulPrism(stages[2])
  /\ op = "set"
  /\ Read(before) = Ok(arg)
  /\ \E i \in 1..Len(calls) : calls[i] = Ev(AtO1, "set")
  /\ source # before
  /\ Read(source) = Ok(arg)

IsLawfulFallibleIsoPair ==
  Len(stages) = 2 /\ IsLawfulFallibleIso(stages[1]) /\ IsLawfulFallibleIso(stages[2])

\* C10: on a FallibleIso composed from two stages that obey the round-trip law,
\* try_reverse_get(a) = Ok(s) and try_get(s) = Ok(a2) give a2 = a, and
\* try_get(s) = Ok(a) and try_reverse_get(a) = Ok(s2) give s2 = s.
C10_ComposedFallibleIsoRoundTrip ==
  IsLawfulFallibleIsoPair
  => /\ (op = "try_reverse_get" /\ IsOk(result))
          => LET a2 == Read(result.v) IN IsOk(a2) => a2.v = arg
     /\ (op = "try_get" /\ IsOk(result))
          => LET s2 == try_reverse_get(optic, <<>>, result.v, 0).r IN
             IsOk(s2) => s2.v = before

\* u32 -> u16 composed with doubling: the largest source that doubles without
\* overflow reads its double, and the double reverses to it.
C10_Witness ==
  /\ stages = <<to_u16, times_2>>
  /\ IsLawfulFallibleIsoPair
  /\ op = "try_get"
  /\ before = NarrowMax
  /\ result = Ok(2 * NarrowMax)
  /\ try_reverse_get(optic, <<>>, result.v, 0).r = Ok(before)

\* The last step was stages[1].compose_with_<name>(stages[2]).
Called(name) == op = MethodName(name)

\* C11 (as stated): composing a Prism with a Setter is rejected by the compiler;
\* no composition method takes a Prism first and a Setter second.
C11_PrismWithSetterIsRejected ==
  (Called("setter") /\ stages[1].kind = "PrismImpl" /\ stages[2].kind = "SetterImpl")
    => result = Rejected

\* C11 (amended): composing a Prism with a Setter compiles, returns, and gives a
\* write-only Setter whose first stage is the prism.
C11_PrismWithSetterGivesSetter ==
  (Called("setter") /\ stages[1].kind = "PrismImpl" /\ stages[2].kind = "SetterImpl")
    => /\ result = Composed
       /\ optic.kind = "SetterImpl"
       /\ HasSetter(optic) /\ ~HasGetter(optic)
       /\ optic.inner.optic1 = stages[1].inner
       /\ optic.inner.optic2 = stages[2].inner

C11_Witness ==
  /\ Called("setter")
  /\ stages[1].kind = "PrismImpl"
  /\ stages[2].kind = "SetterImpl"
  /\ result = Composed

\* C12: no operation and no composition method of the core panics.
C12_NoCorePanic == result # Panic

\* C13: a Setter is never the first operand of a composition: every such call is
\* rejected by the compiler (it never fails at run time), and the first stage of
\* every composed setter can be read.
C13_SetterIsNeverFirstOperand ==
  /\ (op \in ComposeMethods /\ stages[1].kind = "SetterImpl") => result = Rejected
  /\ (optic.kind = "SetterImpl" /\ optic.inner.kind = "ComposedSetter")
       => HasGetter(optic.inner.optic1) /\ HasSetter(optic.inner.optic1)

C13_Witness ==
  /\ Called("setter")
  /\ stages[1].kind = "SetterImpl"
  /\ stages[2].kind = "SetterImpl"
  /\ result = Rejected

\* The result-kind table for Lens, Prism, Iso and FallibleIso.
FullOptics == {"LensImpl", "PrismImpl", "IsoImpl", "FallibleIsoImpl"}
ResultKind(first, second) ==
  IF <<first, second>> \in {<<"LensImpl", "LensImpl">>, <<"LensImpl", "IsoImpl">>,
                            <<"IsoImpl", "LensImpl">>}
  THEN "LensImpl"
  ELSE IF <<first, second>> = <<"IsoImpl", "IsoImpl">>
  THEN "IsoImpl"
  ELSE IF <<first, second>> \in {<<"IsoImpl", "FallibleIsoImpl">>,
                                 <<"FallibleIsoImpl", "IsoImpl">>,
                                 <<"FallibleIsoImpl", "FallibleIsoImpl">>}
  THEN "FallibleIsoImpl"
  ELSE "PrismImpl"

\* C14: for each ordered pair of Lens, Prism, Iso and FallibleIso, the first
\* operand's compose_with_<second kind> returns the kind the table gives.
C14_ResultKindFollowsTable ==
  \A name \in {"lens", "prism", "iso", "fallible_iso"} :
    (Called(name) /\ stages[1].kind \in FullOptics /\ stages[2].kind = ImplOf(name))
      => /\ result = Composed
         /\ optic.kind = ResultKind(stages[1].kind, stages[2].kind)

C14_Witness ==
  /\ Called("fallible_iso")
  /\ stages[1].kind = "IsoImpl"
  /\ stages[2].kind = "FallibleIsoImpl"
  /\ optic.kind = "FallibleIsoImpl"

\* What the second stage answers when asked to read what the first stage read.
O2Read == try_get(Composition.optic2, AtO2, O1Read.v).r

\* C15: try_get on a composition of two stages that are total on read (Getter,
\* Lens, Iso) never returns Err, and try_get on any composition returns Err only
\* when one of its stages returned Err for that call.
C15_ErrOnlyFromAStage ==
  (op \in {"try_get", "get"} /\ IsComposition)
  => /\ (HasTotalGetter(Composition.optic1) /\ HasTotalGetter(Composition.optic2))
          => IsOk(result)
     /\ IsErr(result) => (IsErr(O1Read) \/ (IsOk(O1Read) /\ IsErr(O2Read)))
     /\ result.tag \in {"Ok", "Err"}

C15_Witness ==
  /\ op = "try_get"
  /\ IsComposition
  /\ HasTotalGetter(Composition.optic1)
  /\ IsOk(O1Read)
  /\ IsErr(O2Read)
  /\ IsErr(result)

\* The implementation the wrapper the caller holds forwards to.
Wrapped == optic.inner

\* C16: every wrapper forwards unchanged: its try_get and try_reverse_get return
\* what the wrapped implementation returns (also when that is no return at all),
\* and its set leaves the source the wrapped implementation's set leaves.
C16_WrapperForwards ==
  /\ optic.kind \in {"GetterImpl", "PartialGetterImpl", "SetterImpl", "LensImpl",
                      "PrismImpl", "IsoImpl", "FallibleIsoImpl"}
  /\ op = "try_get" => result = try_get(Wrapped, <<>>, before).r
  /\ op = "set" => source = set(Wrapped, <<>>, before, arg).s /\ result = Unit
  /\ op = "try_reverse_get" => result = try_reverse_get(Wrapped, <<>>, arg, 0).r
  /\ op \in {"try_get", "set", "try_reverse_get"}
       => \A i \in 2..Len(calls) : Under(calls[i].at, <<0>>)

C16_Witness ==
  /\ op = "set"
  /\ optic.kind = "PrismImpl"
  /\ Len(stages) = 1
  /\ IsErr(try_get(Wrapped, <<>>, before).r)
  /\ source # before
  /\ source = set(Wrapped, <<>>, before, arg).s

IsTotalOptic(o) == o.kind \in {"LensImpl", "IsoImpl"}
\* Two stages, one of them a Lens or an Iso, composed by the Prism or the
\* FallibleIso composition.
IsWidened ==
  /\ Len(stages) = 2
  /\ Composition.kind \in {"ComposedPrism", "ComposedFallibleIso"}
  /\ IsTotalOptic(stages[1]) \/ IsTotalOptic(stages[2])
\* The mappers given the error of the first and of the second stage.
WidenedMappers(n) ==
  IF n = 1
  THEN {"error_fn_1", "getter_error_fn_1", "reverse_error_fn_1"}
  ELSE {"error_fn_2", "getter_error_fn_2", "reverse_error_fn_2"}
\* What the stages' own operations give, the total stage through get and set.
StagewiseRead ==
  IF IsTotalOptic(stages[1])
  THEN try_get(stages[2], <<>>, get(stages[1], <<>>, before).r.v).r
  ELSE LET r1 == try_get(stages[1], <<>>, before).r IN
       IF IsOk(r1) THEN Ok(get(stages[2], <<>>, r1.v).r.v) ELSE r1
StagewiseSet ==
  LET r1 == try_get(stages[1], <<>>, before).r IN
  IF IsOk(r1)
  THEN set(stages[1], <<>>, before, set(stages[2], <<>>, r1.v, arg).s).s
  ELSE before

\* C18: a Lens or an Iso used as a stage of a Prism or FallibleIso composition
\* behaves as before: try_get gives the payload the stages' own operations give,
\* set leaves the source they leave, and the total stage's error mapper is never
\* called.
C18_WideningIsLossless ==
  IsWidened
  => /\ op = "try_get"
          => /\ IsOk(StagewiseRead) => result = StagewiseRead
             /\ IsErr(StagewiseRead) => IsErr(result)
     /\ op = "set" => source = StagewiseSet
     /\ \A n \in {1, 2} : \A i \in 1..Len(calls) :
          (IsTotalOptic(stages[n]) /\ Len(calls[i].at) = 1)
            => calls[i].op \notin WidenedMappers(n)

C18_Witness ==
  /\ IsWidened
  /\ op = "set"
  /\ stages[1].kind = "IsoImpl"
  /\ stages[2].kind = "PrismImpl"
  /\ source # before
  /\ source = StagewiseSet

ReadOps == {"try_get", "get", "try_reverse_get", "reverse_get"}

\* The last call made again, with the same argument, on the source as it is now.
Repeated ==
  CASE op = "try_get" -> try_get(optic, <<>>, source).r
    [] op = "get" -> get(optic, <<>>, source).r
    [] op = "try_reverse_get" -> try_reverse_get(optic, <<>>, arg, 0).r
    [] op = "reverse_get" -> reverse_get(optic, <<>>, arg, 0).r

C20_WrappingAddThree ==
  op \in {"try_get", "get"}
  => /\ result = Ok((before + 3) % WideModulus)
     /\ before = 5 => result = Ok(8)
     /\ before = WideMax => result = Ok(2)

C20_Witness ==
  /\ op = "try_get"
  /\ optic.inner.kind = "ComposedIso"
  /\ before = WideMax
  /\ result = Ok(2)

\* The positions in the call record of the calls of method m on the optic at p.
CallsOf(p, m) == {k \in 1..Len(calls) : calls[k] = Ev(p, m)}

\* C21: set on a composition whose first stage reads the source as Ok(i) calls
\* the first stage's getter once, then the second stage's set on i, then the
\* first stage's set on the source, in that order, and never the second stage's
\* getter; the source is left as the first stage's set leaves the original
\* source given the intermediate the second stage's set made of i and the value.
C21_SetReadsThenSetsThenWritesBack ==
  (op = "set" /\ IsComposition /\ IsOk(O1Read))
  => LET u2 == set(Composition.optic2, AtO2, O1Read.v, arg)
         u1 == set(Composition.optic1, AtO1, before, u2.s)
     IN /\ source = u1.s
        /\ Cardinality(CallsOf(AtO1, "try_get")) = 1
        /\ Cardinality(CallsOf(AtO2, "set")) = 1
        /\ Cardinality(CallsOf(AtO1, "set")) = 1
        /\ \A a \in CallsOf(AtO1, "try_get"), b \in CallsOf(AtO2, "set"),
              c \in CallsOf(AtO1, "set") : a < b /\ b < c
        /\ CallsOf(AtO2, "try_get") = {} /\ CallsOf(AtO2, "get") = {}

\* to_u16 . times_2 on a source the first stage reads: the write goes through
\* both stages and changes the source.
C21_Witness ==
  /\ op = "set"
  /\ IsComposition
  /\ Composition.kind = "ComposedFallibleIso"
  /\ IsOk(O1Read)
  /\ source # before
  /\ source = set(Composition.optic1, AtO1, before,
                  set(Composition.optic2, AtO2, O1Read.v, arg).s).s
  /\ Cardinality(CallsOf(AtO1, "try_get")) = 1

\* The compositions that map their stages' getter errors, and the name of the
\* field holding the mapper of the second stage's.
MapsErrors == Composition.kind \in {"ComposedPartialGetter", "ComposedPrism", "ComposedFallibleIso"}
Mapper2Name ==
  IF Composition.kind = "ComposedFallibleIso" THEN "getter_error_fn_2" ELSE "error_fn_2"

\* C22: when the first stage reads the source as Ok(i), try_get on the
\* composition returns what the second stage's try_get returns for i, an error
\* mapped by the second stage's mapper and by no other.
C22_ReadContinuesWithSecondStage ==
  (op = "try_get" /\ IsComposition /\ IsOk(O1Read))
  => /\ result = IF MapsErrors THEN map_err(O2Read, Composition[Mapper2Name]) ELSE O2Read
     /\ \A k \in 1..Len(calls) :
          Len(calls[k].at) = 1
            => /\ calls[k].op \notin WidenedMappers(1)
               /\ calls[k].op \in WidenedMappers(2) => IsErr(O2Read)
     /\ (MapsErrors /\ IsErr(O2Read)) => CallsOf(<<0>>, Mapper2Name) # {}

\* u32 -> u16 composed with doubling, on a source that fits u16 and whose double
\* does not: the doubling stage's "Overflow".
C22_Witness ==
  /\ op = "try_get"
  /\ stages = <<to_u16_wide, times_2_wide>>
  /\ mappers = IntoMappers
  /\ before = 5
  /\ O1Read = Ok(5)
  /\ O2Read = Err(2)
  /\ result = Err(2)

\* The second stage's set, given the intermediate the first stage read, leaves
\* that intermediate as it was.
O2SetKeepsIntermediate ==
  IsOk(O1Read) /\ set(Composition.optic2, AtO2, O1Read.v, arg).s = O1Read.v

\* C23 (as stated): when the second stage's set leaves the intermediate
\* unchanged (its setter declines the write, or the reverse mapping of the value
\* fails), set on the composition leaves the source as it was before the call.
C23_NoChangeBelowIsNoChangeAbove ==
  (op = "set" /\ IsComposition /\ O2SetKeepsIntermediate) => source = before

\* Writing back what the first stage read leaves the source as it is.
O1SetAfterGetKeepsSource ==
  IsOk(O1Read) /\ set(Composition.optic1, AtO1, before, O1Read.v).s = before

\* C23 (amended): when the second stage's set leaves the intermediate unchanged
\* and the first stage's set of the value it read leaves the source unchanged,
\* set on the composition leaves the source as it was before the call.
C23_NoChangeBelowIsNoChangeAboveGivenSetAfterGet ==
  (op = "set" /\ IsComposition /\ O2SetKeepsIntermediate /\ O1SetAfterGetKeepsSource)
    => source = before

\* The delay lens composed with the Seconds prism, on a delay that is not in
\* Seconds: the prism declines, the lens writes back what it read.
C23_Witness ==
  /\ op = "set"
  /\ stages = <<main_lens, timespan_seconds_prism>>
  /\ before % 2 = 0
  /\ arg # before \div 2
  /\ O2SetKeepsIntermediate
  /\ CallsOf(AtO2, "set") # {}
  /\ CallsOf(AtO1, "set") # {}
  /\ source = before

\* What the optic the caller holds answers when asked to reverse the argument.
Reversed == try_reverse_get(optic, <<>>, arg, 0).r

\* C24: on every reversible optic (Iso or FallibleIso, mapped or composed), when
\* try_reverse_get(value) is Ok(s2), set(source, value) leaves the source equal
\* to s2 whatever the source held before.
C24_SetLeavesTheReverse ==
  (op = "set" /\ HasReverseGet(optic) /\ IsOk(Reversed)) => source = Reversed.v

\* The intermediate the second stage leaves when given what the first stage read.
Updated == set(Composition.optic2, AtO2, O1Read.v, arg).s
\* The first stage reads back the updated intermediate once it is written to the
\* source (get-after-set, at the write the composition makes).
O1ReadsBackUpdated ==
  try_get(Composition.optic1, AtO1,
          set(Composition.optic1, AtO1, before, Updated).s).r = Ok(Updated)

\* C25: on a composed Prism whose first stage reads the source and reads back
\* what is written to it, and whose second stage's set always constructs its
\* variant, try_get after set(s, a) is Ok(a), also when the second stage's focus
\* was absent before the call.
C25_SetMakesAbsentFocusReadable ==
  (/\ op = "set"
   /\ IsComposition
   /\ Composition.kind = "ComposedPrism"
   /\ IsOk(O1Read)
   /\ O1ReadsBackUpdated
   /\ Constructs(Composition.optic2, arg))
  => Read(source) = Ok(arg)

\* main . port with the port None: after set the port reads the value written.
C25_Witness ==
  /\ op = "set"
  /\ stages = <<main_lens, port_prism>>
  /\ Composition.kind = "ComposedPrism"
  /\ IsOk(O1Read)
  /\ IsErr(O2Read)
  /\ O1ReadsBackUpdated
  /\ Constructs(Composition.optic2, arg)
  /\ Read(source) = Ok(arg)

\* C26: over(source, f) on an optic that can read and write: when try_get of the
\* source is Ok(v) it leaves the source as set(source, f(v)) leaves it and
\* applies f once; when try_get is an Err it leaves the source as it was and
\* never applies f.
C26_OverIsSetOfFOfGet ==
  op = "over"
  => LET r == Read(before) IN
     /\ IsOk(r) => /\ source = set(optic, <<>>, before, OverFns[arg][r.v]).s
                   /\ Cardinality(CallsOf(<<>>, "f")) = 1
     /\ IsErr(r) => source = before /\ CallsOf(<<>>, "f") = {}
     /\ result = Unit

\* The test's over on a lens: the value read, plus one, is what the source holds.
C26_Witness ==
  /\ op = "over"
  /\ arg = 1
  /\ stages = <<main_lens>>
  /\ source = (before + 1) % Modulus
  /\ Cardinality(CallsOf(<<>>, "f")) = 1

\* A Prism or a FallibleIso: its read can fail.
IsFallibleOptic(o) == o.kind \in {"PrismImpl", "FallibleIsoImpl"}
\* Two stages, one a Lens or an Iso and the other a Prism or a FallibleIso.
IsOneFallible ==
  /\ Len(stages) = 2
  /\ \/ IsTotalOptic(stages[1]) /\ IsFallibleOptic(stages[2])
     \/ IsFallibleOptic(stages[1]) /\ IsTotalOptic(stages[2])
FallibleStage == IF IsFallibleOptic(stages[1]) THEN 1 ELSE 2
\* What the fallible stage itself answers in the composition's read and reverse.
FallibleStageRead ==
  IF FallibleStage = 1
  THEN try_get(stages[1], <<>>, before).r
  ELSE try_get(stages[2], <<>>, get(stages[1], <<>>, before).r.v).r
FallibleStageReverse ==
  IF FallibleStage = 2
  THEN try_reverse_get(stages[2], <<>>, arg, 0).r
  ELSE try_reverse_get(stages[1], <<>>, reverse_get(stages[2], <<>>, arg, 0).r.v, 0).r

\* C27: in a composition of one total stage (Lens, Iso) and one fallible stage
\* (Prism, FallibleIso), in either order, every error try_get or try_reverse_get
\* returns is the error the fallible stage produced, unchanged, and the mapper
\* attached to the total stage is never called.
C27_OnlyFallibleStageErrs ==
  IsOneFallible
  => /\ (op = "try_get" /\ IsErr(result)) => result = FallibleStageRead
     /\ (op = "try_reverse_get" /\ IsErr(result)) => result = FallibleStageReverse
     /\ \A k \in 1..Len(calls) :
          Len(calls[k].at) = 1 => calls[k].op \notin WidenedMappers(3 - FallibleStage)

\* Doubling composed with add-one, reversing a value whose predecessor is odd:
\* the doubling stage's own "Not Even" comes back.
C27_Witness ==
  /\ IsOneFallible
  /\ op = "try_reverse_get"
  /\ stages = <<times_2, wrapping_add_one>>
  /\ mappers = ExplicitMappers
  /\ result = Err(3)
  /\ result = FallibleStageReverse

\* Thread t's call has returned.
Returned(t) == op[t] # "new" /\ calls[t].pc = "idle"

\* C28: threads that share one optic and each work on their own source need no
\* synchronization: however the steps of their composed sets (read the
\* intermediate, set it, write it back) and reads interleave, every call that
\* has returned left its source, and returned the result, that the call run on
\* its own gives.
C28_InterleavingIsInvisible ==
  \A t \in Threads :
    Returned(t)
    => /\ op[t] = "set"
            => /\ source[t] = set(optic, <<>>, before[t], arg[t]).s
               /\ result[t] = Unit
       /\ op[t] = "try_get"
            => /\ result[t] = try_get(optic, <<>>, before[t]).r
               /\ source[t] = before[t]

\* One thread's set has returned and changed its source while another thread,
\* on a different source and value, holds its updated intermediate, not yet
\* written back.
C28_Witness ==
  /\ Returned(2)
  /\ op[2] = "set"
  /\ source[2] # before[2]
  /\ source[2] = set(optic, <<>>, before[2], arg[2]).s
  /\ op[1] = "set"
  /\ calls[1].pc = "write"
  /\ before[1] # before[2]
  /\ arg[1] # arg[2]
  /\ calls[1].i # 0

\* The stage that is not the identity.
Other == IF stages[1] \in Identities THEN stages[2] ELSE stages[1]

\* The composition reads what the other stage reads.
ReadsAsOther == op = "try_get" => result = try_get(Other, <<>>, before).r

\* The composition's set leaves what the other stage's set leaves.
SetsAsOther == op = "set" => source = set(Other, <<>>, before, arg).s

\* C29: the identity optic is a neutral element of composition: for every optic
\* O, both the identity composed with O and O composed with the identity
\* return from try_get what O returns and leave after set the source O's set
\* leaves, for every source and value.
C29_IdentityIsNeutral == ReadsAsOther /\ SetsAsOther

\* The part of C29 about reads, and the part about the identity coming first.
C29_ReadsAreNeutral == ReadsAsOther
C29_IdentityFirstIsNeutral == stages[1] \in Identities => SetsAsOther
\* With the identity last, a set is neutral whenever the other stage could read
\* the source.
C29_IdentityLastIsNeutralOnReadable ==
  (/\ stages[2] \in Identities
   /\ HasGetter(Other)
   /\ IsOk(try_get(Other, <<>>, before).r)) => SetsAsOther

IsVeryLawfulLensPair ==
  IsLawfulLensPair /\ SetAfterSet(stages[1]) /\ SetAfterSet(stages[2])

\* C30: on a Lens composed from lenses that each obey get-after-set,
\* set-after-get and set-after-set, after any sequence of sets get returns the
\* value of the last set and the source is what that last set alone makes of
\* the source the sequence started from.
C30_LastSetWins ==
  (IsVeryLawfulLensPair /\ op = "set")
  => /\ get(optic, <<>>, source).r = Ok(arg)
     /\ source = set(optic, <<>>, before, arg).s

\* Three sets were made on a rearrangement followed by a field, and the last
\* one left a source other than the one the sequence started from, keeping the
\* rest of it.
C30_Witness ==
  /\ IsVeryLawfulLensPair
  /\ SourcesOf(stages[2]) = Outer
  /\ SetsMade = 3
  /\ source # before
  /\ get(optic, <<>>, before).r # Ok(arg)
  /\ \E a \in Focus : set(optic, <<>>, source, a).s = before

\* C30 without the set-after-set law of the stages.
C30_LastSetWinsOnLawfulLenses ==
  (IsLawfulLensPair /\ op = "set")
  => /\ get(optic, <<>>, source).r = Ok(arg)
     /\ source = set(optic, <<>>, before, arg).s

====
